---- MODULE Spec2Model ----
(***************************************************************************)
(* johndb: a B-link tree over slotted pages behind a page fetcher with     *)
(* per-page reader/writer latches.  The module models the page layer       *)
(* (page.rs), the in-memory page fetcher (page_fetcher.rs), the node       *)
(* adapters (btree/*_node.rs) and BTree::insert / BTree::search            *)
(* (btree/insert.rs, btree/search.rs) as threads that step from one latch  *)
(* acquisition to the next (Spec).  Component specifications drive one     *)
(* layer alone: the page fetcher call by call (FetcherSpec) and new_page   *)
(* statement by statement (NewPageSpec), a single page byte by byte        *)
(* (PageSpec), the serialization of items (ItemSpec), and one internal     *)
(* node with update_child_ptr (NodeSpec).                                  *)
(***************************************************************************)
EXTENDS Integers, Sequences, FiniteSets, Bags, TLC

VARIABLES
    scenario,        \* "seq": one caller, many calls; "race": threads, one call each
    script,          \* keys thread 1 still inserts alone before the race starts
    page_data_size,  \* PAGE_DATA_SIZE of this run (page.rs:9, scaled down)
    used_cnt,        \* InMemoryPageFetcher.used_cnt
    pages,           \* InMemoryPageFetcher.pages[0 .. used_cnt-1]
    rw_locks,        \* InMemoryPageFetcher.rw_locks[0 .. used_cnt-1]
    pc,              \* where each thread stands inside insert / search
    loc,             \* the locals of the call each thread is running
    ins_log,         \* the insert calls that have returned, in order of return
    unit             \* the calls made so far on the unit a component specification drives

vars == <<scenario, script, page_data_size, used_cnt, pages, rw_locks, pc, loc, ins_log,
          unit>>

(***************************************************************************)
(* Bounds of the model.                                                    *)
(***************************************************************************)
NumThreads == 3
MaxSeqKey == 5
LargePageDataSize == 100
SmallPageDataSize == 68
HighKeyOffset == 8
KeyBits == 8
NumFetcherThreads == 2
MaxHeld == 1
FetcherPageDataSize == 16
UnitPageDataSize == 48
NumItemTags == 2
MaxUpdateIdx == 2
CursorBits == 16
MaxNewPageCalls == 3
AllocatedBefore == 14
NodePageDataSize == 52
MaxNodeCalls == 4
\* the separator of the leaf the node operations run on (a leaf that has split)
LeafSeparator == 6

(***************************************************************************)
(* Program constants.                                                      *)
(***************************************************************************)
ITEM_POINTER_SIZE == 4
NumPages == 16
\* Key::max_key() (key.rs:6, 15-17) of a key type KeyBits wide; KeyU32 is the
\* 32-bit instance, and no arithmetic is ever done on keys
MAX_KEY == 2 ^ KeyBits - 1
KeyU32Size == 4
ValueTupleIdSize == 8
LeafNodeItemDataSize == 12
InternalNodeItemDataSize == 8
BTreePageDataSize == 8
ItemAlign == 4
AlignedBufferSize == 18

Threads == 1 .. NumThreads
NoThread == 0
None == -1

(***************************************************************************)
(* mem.rs                                                                  *)
(***************************************************************************)
align_offset_down(len, align) == len - (len % align)

(***************************************************************************)
(* page.rs: a page is its header, its slot directory (each slot with the   *)
(* item stored at its offset) and its special area.  An item is a record   *)
(* [key, val]: a bare key (separator, root number) has val = 0, a leaf     *)
(* item has val = value, a downlink has val = page_no.                     *)
(***************************************************************************)
PageHeaderNew(special_size, pds) ==
    [item_upper |-> 0, item_lower |-> pds - special_size, special_size |-> special_size]

item_cnt(page) == page.header.item_upper \div ITEM_POINTER_SIZE

\* Page::add_item_v2 with PageHeader::add_item_v2: "ok" and the new page, "full"
\* (the Err), or "underflow" when item_lower - size leaves usize.
add_item_v2(page, item, size, align) ==
    LET h == page.header
        new_item_upper == h.item_upper + ITEM_POINTER_SIZE
    IN  IF h.item_lower < size
        THEN [res |-> "underflow", page |-> page]
        ELSE LET new_item_lower == align_offset_down(h.item_lower - size, align)
             IN  IF new_item_upper > new_item_lower
                 THEN [res |-> "full", page |-> page]
                 ELSE [res |-> "ok",
                       page |-> [page EXCEPT
                           !.header.item_upper = new_item_upper,
                           !.header.item_lower = new_item_lower,
                           !.slots = Append(@, [offset |-> new_item_lower,
                                                size |-> size,
                                                item |-> item])]]

\* Page::get_item_v2 (the index is asserted to be below item_upper by the callers' guards)
get_item_v2(page, idx) == page.slots[idx + 1].item

HasItem(page, idx) == idx * ITEM_POINTER_SIZE < page.header.item_upper

\* Page::update_item_v2: overwrite in place; the sizes must agree (assert_eq)
update_item_v2(page, idx, item) == [page EXCEPT !.slots[idx + 1].item = item]

\* Page::zero_out_item_data
zero_out_item_data(page, pds) ==
    [page EXCEPT !.header = PageHeaderNew(page.header.special_size, pds),
                 !.slots = <<>>]

KeyItem(k) == [key |-> k, val |-> 0]

(***************************************************************************)
(* page_fetcher.rs                                                         *)
(***************************************************************************)
FreeLock == [writer |-> NoThread, readers |-> {}, poisoned |-> FALSE]

\* the page InMemoryPageFetcher::new_page initialises
FreshPage(node_type, right_sibling_page_no, pds) ==
    [header  |-> PageHeaderNew(BTreePageDataSize, pds),
     slots   |-> <<>>,
     special |-> [node_type |-> node_type,
                  right_sibling_page_no |-> right_sibling_page_no]]

Allocated(p) == p < used_cnt

CanRead(p) == rw_locks[p].writer = NoThread
\* mutation of CanWrite: shared holders do not keep a writer out
CanWriteOverReaders(p) == rw_locks[p].writer = NoThread
CanWrite(p) == rw_locks[p].writer = NoThread /\ rw_locks[p].readers = {}

\* the latch table with every guard of t dropped; a write guard dropped while
\* t panics poisons its RwLock
DropAll(locks, t, panicking) ==
    [p \in DOMAIN locks |->
        [writer   |-> IF locks[p].writer = t THEN NoThread ELSE locks[p].writer,
         readers  |-> locks[p].readers \ {t},
         poisoned |-> locks[p].poisoned \/ (panicking /\ locks[p].writer = t)]]

(***************************************************************************)
(* btree/metadata_node.rs                                                  *)
(***************************************************************************)
root_no(page) == IF item_cnt(page) = 0 THEN None ELSE get_item_v2(page, 0).key

\* mutation of set_root_no: the root number is always added as a new item
set_root_no_added(page, n) == add_item_v2(page, KeyItem(n), KeyU32Size, ItemAlign).page

set_root_no(page, n) ==
    IF item_cnt(page) = 0
    THEN add_item_v2(page, KeyItem(n), KeyU32Size, ItemAlign).page
    ELSE update_item_v2(page, 0, KeyItem(n))

(***************************************************************************)
(* btree/leaf_node.rs and btree/internal_node.rs                           *)
(***************************************************************************)
\* LeafNodeRead::separator / InternalNodeRead::separator: the key in slot 0
separator(page) == get_item_v2(page, 0).key

\* LeafNodeRead::item_iter / InternalNodeRead::item_iter: the items after slot 0
item_iter(page) == [i \in 1 .. (item_cnt(page) - 1) |-> get_item_v2(page, i)]

\* LeafNodeWriteLock::set_separator / InternalNodeWriteLock::set_separator
set_separator(page, sep) == add_item_v2(page, KeyItem(sep), KeyU32Size, ItemAlign).page

\* mutation of leaf_add_item: the separator is not consulted
leaf_add_item_unchecked(page, item) ==
    add_item_v2(page, item, LeafNodeItemDataSize, ItemAlign)

\* LeafNodeWriteLock::add_item: "range" is the error for a key above the separator
leaf_add_item(page, item) ==
    IF item.key > separator(page)
    THEN [res |-> "range", page |-> page]
    ELSE add_item_v2(page, item, LeafNodeItemDataSize, ItemAlign)

\* InternalNodeWriteLock::add_item
internal_add_item(page, item) ==
    IF item.key > separator(page)
    THEN [res |-> "range", page |-> page]
    ELSE add_item_v2(page, item, InternalNodeItemDataSize, ItemAlign)

(***************************************************************************)
(* btree/insert.rs: split_node_data_v2                                     *)
(***************************************************************************)
\* the derived Ord of LeafNodeItemData / InternalNodeItemData: key, then the rest
ItemLess(a, b) == a.key < b.key \/ (a.key = b.key /\ a.val < b.val)

\* Vec::sort (stable): position of items[i] in the sorted vector
SortedPos(items, i) ==
    Cardinality({j \in DOMAIN items :
        \/ ItemLess(items[j], items[i])
        \/ (~ItemLess(items[i], items[j]) /\ j < i)}) + 1

sort(items) ==
    [p \in DOMAIN items |-> items[CHOOSE i \in DOMAIN items : SortedPos(items, i) = p]]

\* page.add_item_v2(item).unwrap() for each item in turn; ok = FALSE is the panic
RECURSIVE add_all(_, _, _)
add_all(page, items, size) ==
    IF items = <<>>
    THEN [ok |-> TRUE, page |-> page]
    ELSE LET r == add_item_v2(page, Head(items), size, ItemAlign)
         IN  IF r.res = "ok" THEN add_all(r.page, Tail(items), size)
                             ELSE [ok |-> FALSE, page |-> r.page]

\* mutation of split_count: the lower half by count, rounded down
split_count_floor(n, size) == n \div 2

\* the loop of insert.rs:293-301: the number of sorted items written to `new`
split_count(n, size) ==
    IF n = 0 THEN 0
    ELSE CHOOSE c \in 1 .. n :
            /\ c * size > (n * size) \div 2
            /\ \A d \in 1 .. (c - 1) : ~(d * size > (n * size) \div 2)

\* insert.rs:288-301: the separator, then the lower `count` sorted items, go to `new`
split_fill_new(new, sep, sorted_rev, count, size) ==
    LET new1 == add_item_v2(new, sep, KeyU32Size, ItemAlign)
    IN  IF new1.res # "ok"
        THEN [ok |-> FALSE, page |-> new]
        ELSE add_all(new1.page, SubSeq(sorted_rev, 1, count), size)

\* mutation of split_fill_orig: the first item kept by `orig` is skipped
split_fill_orig_drop(orig, sorted_rev, count, size, pds) ==
    IF count >= Len(sorted_rev)
    THEN [ok |-> FALSE, page |-> zero_out_item_data(orig, pds)]
    ELSE LET orig1 == add_item_v2(zero_out_item_data(orig, pds),
                                  KeyItem(sorted_rev[count + 1].key), KeyU32Size, ItemAlign)
         IN  IF orig1.res # "ok"
             THEN [ok |-> FALSE, page |-> orig1.page]
             ELSE add_all(orig1.page, SubSeq(sorted_rev, count + 2, Len(sorted_rev)), size)

\* insert.rs:303-310: `orig` is emptied, takes the key of sorted_rev[count] as its
\* separator and the items from `count` on; get(count).unwrap() panics past the end
split_fill_orig(orig, sorted_rev, count, size, pds) ==
    IF count >= Len(sorted_rev)
    THEN [ok |-> FALSE, page |-> zero_out_item_data(orig, pds)]
    ELSE LET orig1 == add_item_v2(zero_out_item_data(orig, pds),
                                  KeyItem(sorted_rev[count + 1].key), KeyU32Size, ItemAlign)
         IN  IF orig1.res # "ok"
             THEN [ok |-> FALSE, page |-> orig1.page]
             ELSE add_all(orig1.page, SubSeq(sorted_rev, count + 1, Len(sorted_rev)), size)

\* the two pages as split_node_data_v2 leaves them; ok = FALSE is a panic (an unwrap
\* of None or of Err)
split_outcome(orig, n, o) ==
    IF ~n.ok
    THEN [ok |-> FALSE, orig |-> orig, new |-> n.page]
    ELSE [ok |-> o.ok, orig |-> o.page, new |-> n.page]

\* insert.rs:286-310 on the sorted items
split_sorted(orig, new, sep, sorted_rev, size, pds) ==
    split_outcome(orig,
        split_fill_new(new, sep, sorted_rev, split_count(Len(sorted_rev), size), size),
        split_fill_orig(orig, sorted_rev, split_count(Len(sorted_rev), size), size, pds))

\* insert.rs:275-311: split_node_data_v2(orig, new, |i| i.key) for items of `size` bytes
split_node_data_v2(orig, new, size, pds) ==
    split_sorted(orig, new, get_item_v2(orig, 0), sort(item_iter(orig)), size, pds)

\* insert.rs:150-157 and the value insert returns at 268
split_leaf_result(o, s, ret, leaf_node_no, new_sibling_no) ==
    [ok |-> o.res = "ok" /\ s.res = "ok", orig |-> o.page, new |-> s.page, ret |-> ret,
     orig_child |-> [key |-> separator(o.page), val |-> leaf_node_no],
     new_child  |-> [key |-> separator(s.page), val |-> new_sibling_no]]

\* insert.rs:138-145: the pending pair goes to the original leaf when
\* key <= its new separator, to the new sibling otherwise
split_leaf_place(sp, leaf_node_no, new_sibling_no, leaf_data) ==
    IF ~sp.ok
    THEN [ok |-> FALSE, orig |-> sp.orig, new |-> sp.new, ret |-> None,
          orig_child |-> KeyItem(0), new_child |-> KeyItem(0)]
    ELSE IF leaf_data.key <= separator(sp.orig)
    THEN split_leaf_result(leaf_add_item(sp.orig, leaf_data),
                           [res |-> "ok", page |-> sp.new],
                           leaf_node_no, leaf_node_no, new_sibling_no)
    ELSE split_leaf_result([res |-> "ok", page |-> sp.orig],
                           leaf_add_item(sp.new, leaf_data),
                           new_sibling_no, leaf_node_no, new_sibling_no)

\* insert.rs:116-157: the leaf split.  leaf_node_no is the page the descent chose,
\* which the code uses for the returned page number and for orig_child.page_no
split_leaf(leaf, leaf_node_no, new_sibling_no, leaf_data, pds) ==
    split_leaf_place(
        split_node_data_v2(
            [leaf EXCEPT !.special.right_sibling_page_no = new_sibling_no],
            FreshPage("Leaf", leaf.special.right_sibling_page_no, pds),
            LeafNodeItemDataSize, pds),
        leaf_node_no, new_sibling_no, leaf_data)

(***************************************************************************)
(* Construction: a fetcher whose page 0 is the metadata page               *)
(* (insert.rs setup_btree, mod.rs basic_test).                             *)
(***************************************************************************)
\* the tree specification drives no unit of its own
NoUnit == <<>>

NoCall == [op |-> "none", status |-> "none", key |-> 0, value |-> 0, once |-> FALSE,
           leaf_node_no |-> 0, traversed |-> <<>>, page_no |-> 0,
           orig_child |-> KeyItem(0), new_child |-> KeyItem(0),
           ret |-> None, ret_value |-> None, known |-> None]

InitFetcher(pds) ==
    /\ page_data_size = pds
    /\ used_cnt = 1
    /\ pages = [p \in {0} |-> FreshPage("Metadata", 0, pds)]
    /\ rw_locks = [p \in {0} |-> FreeLock]
    /\ ins_log = <<>>
    /\ loc = [t \in Threads |-> NoCall]
    /\ unit = NoUnit

PrefillKeys == <<2, 4, 6>>

Init ==
    \/ /\ scenario = "seq"
       /\ script = <<>>
       /\ InitFetcher(LargePageDataSize)
       /\ pc = [t \in Threads |-> IF t = 1 THEN "idle" ELSE "off"]
    \/ /\ scenario = "race"
       /\ script \in {<<>>, PrefillKeys}
       /\ InitFetcher(SmallPageDataSize)
       /\ pc = [t \in Threads |-> "idle"]

(***************************************************************************)
(* The callers.  In "seq" thread 1 calls insert (each key once) and search *)
(* any number of times.  In "race" thread 1 first inserts the keys of      *)
(* script alone; then every thread makes one call, an insert of a key of   *)
(* its own range or a search.                                              *)
(***************************************************************************)
ValueOf(key) == key + 100

SeqKeys == 0 .. MaxSeqKey
RaceKeys(t) == {2 * t - 1, 2 * t - 1 + HighKeyOffset}
RaceSearchKeys == {4, 6}

PrefillDone == script = <<>> /\ (pc[1] = "idle" \/ loc[1].once)

\* the value an insert that has returned gave to key, or None
Inserted(key) ==
    IF \E i \in DOMAIN ins_log : ins_log[i].key = key
    THEN ins_log[CHOOSE i \in DOMAIN ins_log : ins_log[i].key = key].value
    ELSE None

Call(t, op, key, once) ==
    /\ pc[t] = "idle"
    /\ loc' = [loc EXCEPT ![t] = [NoCall EXCEPT
                  !.op = op, !.status = "running", !.key = key,
                  !.value = IF op = "insert" THEN ValueOf(key) ELSE 0,
                  !.once = once, !.known = IF op = "search" THEN Inserted(key) ELSE None]]
    /\ pc' = [pc EXCEPT ![t] = IF op = "insert" THEN "ins_meta_read" ELSE "srch_fetch"]
    /\ UNCHANGED <<scenario, page_data_size, used_cnt, pages, rw_locks, ins_log, unit>>

InsertCall(t) ==
    /\ scenario = "seq"
    /\ \E key \in SeqKeys :
          /\ Inserted(key) = None
          /\ Call(t, "insert", key, FALSE)
    /\ UNCHANGED script

PrefillCall(t) ==
    /\ scenario = "race" /\ t = 1 /\ script # <<>>
    /\ Call(t, "insert", Head(script), FALSE)
    /\ script' = Tail(script)

RaceInsertCall(t) ==
    /\ scenario = "race" /\ PrefillDone
    /\ \E key \in RaceKeys(t) : Call(t, "insert", key, TRUE)
    /\ UNCHANGED script

SearchCall(t) ==
    /\ scenario = "seq"
    /\ \E key \in SeqKeys : Call(t, "search", key, FALSE)
    /\ UNCHANGED script

RaceSearchCall(t) ==
    /\ scenario = "race" /\ PrefillDone
    /\ \E key \in RaceSearchKeys : Call(t, "search", key, TRUE)
    /\ UNCHANGED script

(***************************************************************************)
(* How a call ends.                                                        *)
(***************************************************************************)
After(t) == IF loc[t].once THEN "done" ELSE "idle"

\* a panic unwinds: every guard of t is dropped (write guards poison), the call is over
Panic(t, pgs, cnt, locks) ==
    /\ pc' = [pc EXCEPT ![t] = "panicked"]
    /\ loc' = [loc EXCEPT ![t] = [NoCall EXCEPT
                  !.op = loc[t].op, !.status = "panicked", !.key = loc[t].key,
                  !.value = loc[t].value, !.once = loc[t].once,
                  !.known = loc[t].known]]
    /\ pages' = pgs
    /\ used_cnt' = cnt
    /\ rw_locks' = DropAll(locks, t, TRUE)
    /\ UNCHANGED <<scenario, script, page_data_size, ins_log, unit>>

\* insert returns ret
InsertReturn(t, ret, pgs, cnt, locks) ==
    /\ pc' = [pc EXCEPT ![t] = After(t)]
    /\ loc' = [loc EXCEPT ![t] = [NoCall EXCEPT
                  !.op = "insert", !.status = "returned", !.key = loc[t].key,
                  !.value = loc[t].value, !.once = loc[t].once, !.ret = ret]]
    /\ ins_log' = Append(ins_log, [key |-> loc[t].key, value |-> loc[t].value, ret |-> ret])
    /\ pages' = pgs
    /\ used_cnt' = cnt
    /\ rw_locks' = DropAll(locks, t, FALSE)
    /\ UNCHANGED <<scenario, script, page_data_size, unit>>

\* search returns SearchResult {leaf_page_no, value}
SearchReturn(t, leaf_page_no, value) ==
    /\ pc' = [pc EXCEPT ![t] = After(t)]
    /\ loc' = [loc EXCEPT ![t] = [NoCall EXCEPT
                  !.op = "search", !.status = "returned", !.key = loc[t].key,
                  !.once = loc[t].once, !.known = loc[t].known,
                  !.ret = leaf_page_no, !.ret_value = value]]
    /\ rw_locks' = DropAll(rw_locks, t, FALSE)
    /\ UNCHANGED <<scenario, script, page_data_size, used_cnt, pages, ins_log, unit>>

\* the thread goes on to label next with its locals changed
Goto(t, next, newloc, pgs, cnt, locks) ==
    /\ pc' = [pc EXCEPT ![t] = next]
    /\ loc' = [loc EXCEPT ![t] = newloc]
    /\ pages' = pgs
    /\ used_cnt' = cnt
    /\ rw_locks' = locks
    /\ UNCHANGED <<scenario, script, page_data_size, ins_log, unit>>

\* rw_lock.read() / rw_lock.write() returned the guard to t
ReadLocked(locks, p, t) == [locks EXCEPT ![p].readers = @ \cup {t}]
WriteLocked(locks, p, t) == [locks EXCEPT ![p].writer = t]

\* PageFetcher::new_page: the page table and the latch table with page used_cnt
\* added, its latch held exclusively by t
new_page_pages(page) == [p \in 0 .. used_cnt |-> IF p = used_cnt THEN page ELSE pages[p]]
new_page_locks(locks, t) ==
    [p \in 0 .. used_cnt |-> IF p = used_cnt THEN [FreeLock EXCEPT !.writer = t]
                                             ELSE locks[p]]

(***************************************************************************)
(* btree/insert.rs: BTree::insert                                          *)
(***************************************************************************)
\* insert.rs:29: fetch_page_read(0).unwrap(), MetadataReadLock::from
InsertFetchMeta(t) ==
    /\ pc[t] = "ins_meta_read"
    /\ CanRead(0)
    /\ IF rw_locks[0].poisoned \/ pages[0].special.node_type # "Metadata"
       THEN Panic(t, pages, used_cnt, rw_locks)
       ELSE Goto(t, "ins_meta_held", loc[t], pages, used_cnt, ReadLocked(rw_locks, 0, t))

\* mutation of drop_metadata: the shared latch on page 0 is kept
keep_metadata(locks, t) == locks

\* insert.rs:39: drop(metadata) before the exclusive latch is requested
drop_metadata(locks, t) == DropAll(locks, t, FALSE)

\* mutation of InsertMetaHeld: the shared latch on page 0 outlives the block that
\* reads the root number
InsertMetaHeld_kept(t) ==
    /\ pc[t] = "ins_meta_held"
    /\ LET root == root_no(pages[0])
       IN  IF root # None
           THEN Goto(t, "ins_descend",
                     [loc[t] EXCEPT !.leaf_node_no = root, !.traversed = <<0>>],
                     pages, used_cnt, rw_locks)
           ELSE Goto(t, "ins_meta_write", loc[t], pages, used_cnt,
                     drop_metadata(rw_locks, t))

\* insert.rs:30-39: the root number read under the shared latch, which is then dropped
InsertMetaHeld(t) ==
    /\ pc[t] = "ins_meta_held"
    /\ LET root == root_no(pages[0])
       IN  IF root # None
           THEN Goto(t, "ins_descend",
                     [loc[t] EXCEPT !.leaf_node_no = root, !.traversed = <<0>>],
                     pages, used_cnt, DropAll(rw_locks, t, FALSE))
           ELSE Goto(t, "ins_meta_write", loc[t], pages, used_cnt,
                     drop_metadata(rw_locks, t))

\* insert.rs:40-41: fetch_page_write(0).unwrap()
InsertMetaWrite(t) ==
    /\ pc[t] = "ins_meta_write"
    /\ CanWrite(0)
    /\ IF rw_locks[0].poisoned \/ pages[0].special.node_type # "Metadata"
       THEN Panic(t, pages, used_cnt, WriteLocked(rw_locks, 0, t))
       ELSE Goto(t, "ins_meta_write_held", loc[t], pages, used_cnt,
                 WriteLocked(rw_locks, 0, t))

\* mutation of root_recheck: the root number read before the exclusive latch is trusted
root_recheck_skipped(metadata_w) == None

\* insert.rs:42: metadata_w.root_no(), read again under the exclusive latch
root_recheck(metadata_w) == root_no(metadata_w)

\* insert.rs:42-57: recheck under the exclusive latch, then the new root leaf
InsertRootInit(t) ==
    /\ pc[t] = "ins_meta_write_held"
    /\ LET root == root_recheck(pages[0])
           new_root_no == used_cnt
           new_root == set_separator(FreshPage("Leaf", 0, page_data_size), MAX_KEY)
       IN  IF root # None
           THEN Goto(t, "ins_descend",
                     [loc[t] EXCEPT !.leaf_node_no = root, !.traversed = <<0>>],
                     pages, used_cnt, DropAll(rw_locks, t, FALSE))
           ELSE IF used_cnt = NumPages
           THEN Panic(t, pages, used_cnt, rw_locks)
           ELSE Goto(t, "ins_descend",
                     [loc[t] EXCEPT !.leaf_node_no = new_root_no, !.traversed = <<0>>],
                     [new_page_pages(new_root) EXCEPT ![0] = set_root_no(@, new_root_no)],
                     used_cnt + 1,
                     DropAll(new_page_locks(rw_locks, t), t, FALSE))

\* insert.rs:68: fetch_page_read(leaf_node_no).unwrap()
InsertDescend(t) ==
    /\ pc[t] = "ins_descend"
    /\ LET p == loc[t].leaf_node_no
       IN  IF ~Allocated(p)
           THEN Panic(t, pages, used_cnt, rw_locks)
           ELSE /\ CanRead(p)
                /\ IF rw_locks[p].poisoned
                   THEN Panic(t, pages, used_cnt, rw_locks)
                   ELSE Goto(t, "ins_descend_held", loc[t], pages, used_cnt,
                             ReadLocked(rw_locks, p, t))

\* insert.rs:69-94: a leaf ends the descent; for an internal node from_read_lock
\* (internal_node.rs:335-338) asserts node_type Leaf and panics; metadata panics
InsertDescendHeld(t) ==
    /\ pc[t] = "ins_descend_held"
    /\ IF pages[loc[t].leaf_node_no].special.node_type = "Leaf"
       THEN Goto(t, "ins_find_leaf", [loc[t] EXCEPT !.page_no = loc[t].leaf_node_no],
                 pages, used_cnt, DropAll(rw_locks, t, FALSE))
       ELSE Panic(t, pages, used_cnt, rw_locks)

\* leaf_node.rs:316-319: find_move_right, fetch_page_write(leaf_no).unwrap() with
\* from_write_lock's assertion
InsertFindLeaf(t) ==
    /\ pc[t] = "ins_find_leaf"
    /\ LET p == loc[t].page_no
       IN  IF ~Allocated(p)
           THEN Panic(t, pages, used_cnt, rw_locks)
           ELSE /\ CanWrite(p)
                /\ IF rw_locks[p].poisoned \/ pages[p].special.node_type # "Leaf"
                   THEN Panic(t, pages, used_cnt, WriteLocked(rw_locks, p, t))
                   ELSE Goto(t, "ins_leaf_held", loc[t], pages, used_cnt,
                             WriteLocked(rw_locks, p, t))

\* mutation of fit_return: the page after the latched one
fit_return_next(leaf_node_no, latched_no) == latched_no + 1

\* the page number insert returns when add_item succeeds at once (insert.rs:104-107)
fit_return(leaf_node_no, latched_no) == leaf_node_no

\* mutation of InsertSplit: the guard of the new sibling is kept for the climb
InsertSplit_kept(t, leaf_no, new_sibling_no, sp) ==
    IF ~sp.ok
    THEN Panic(t, [new_page_pages(sp.new) EXCEPT ![leaf_no] = sp.orig], used_cnt + 1,
               new_page_locks(rw_locks, t))
    ELSE Goto(t, "ins_up",
              [loc[t] EXCEPT !.ret = sp.ret, !.orig_child = sp.orig_child,
                             !.new_child = sp.new_child],
              [new_page_pages(sp.new) EXCEPT ![leaf_no] = sp.orig], used_cnt + 1,
              new_page_locks(rw_locks, t))

\* insert.rs:116-165: the split leaf and its new sibling are stored, the sibling's
\* latch is dropped, and the climb begins
InsertSplit(t, leaf_no, new_sibling_no, sp) ==
    IF ~sp.ok
    THEN Panic(t, [new_page_pages(sp.new) EXCEPT ![leaf_no] = sp.orig], used_cnt + 1,
               new_page_locks(rw_locks, t))
    ELSE Goto(t, "ins_up",
              [loc[t] EXCEPT !.ret = sp.ret, !.orig_child = sp.orig_child,
                             !.new_child = sp.new_child],
              [new_page_pages(sp.new) EXCEPT ![leaf_no] = sp.orig], used_cnt + 1,
              [new_page_locks(rw_locks, t) EXCEPT ![new_sibling_no] = FreeLock])

\* insert.rs:104-108 on the latched leaf: the pair fits, or the leaf splits
InsertPlace(t, leaf_no, added) ==
    IF added.res = "ok"
    THEN InsertReturn(t, fit_return(loc[t].leaf_node_no, leaf_no),
                      [pages EXCEPT ![leaf_no] = added.page], used_cnt, rw_locks)
    ELSE IF added.res = "underflow" \/ used_cnt = NumPages
    THEN Panic(t, pages, used_cnt, rw_locks)
    ELSE InsertSplit(t, leaf_no, used_cnt,
                     split_leaf(pages[leaf_no], loc[t].leaf_node_no, used_cnt,
                                [key |-> loc[t].key, val |-> loc[t].value],
                                page_data_size))

\* mutation of InsertLeafHeld: the guard of the leaf outlives the turn of the loop
\* that moves right
InsertLeafHeld_coupled(t) ==
    /\ pc[t] = "ins_leaf_held"
    /\ LET leaf_no == loc[t].page_no
           next == pages[leaf_no].special.right_sibling_page_no
       IN  IF ~(loc[t].key < separator(pages[leaf_no]))
           THEN IF next = 0
                THEN Panic(t, pages, used_cnt, DropAll(rw_locks, t, FALSE))
                ELSE Goto(t, "ins_find_leaf", [loc[t] EXCEPT !.page_no = next],
                          pages, used_cnt, rw_locks)
           ELSE InsertPlace(t, leaf_no,
                    leaf_add_item(pages[leaf_no],
                                  [key |-> loc[t].key, val |-> loc[t].value]))

\* leaf_node.rs:321-329 and insert.rs:103-165: move right or place the pair,
\* splitting the leaf when add_item fails
InsertLeafHeld(t) ==
    /\ pc[t] = "ins_leaf_held"
    /\ LET leaf_no == loc[t].page_no
           next == pages[leaf_no].special.right_sibling_page_no
       IN  IF ~(loc[t].key < separator(pages[leaf_no]))
           THEN IF next = 0
                THEN Panic(t, pages, used_cnt, DropAll(rw_locks, t, FALSE))
                ELSE Goto(t, "ins_find_leaf", [loc[t] EXCEPT !.page_no = next],
                          pages, used_cnt, DropAll(rw_locks, t, FALSE))
           ELSE InsertPlace(t, leaf_no,
                    leaf_add_item(pages[leaf_no],
                                  [key |-> loc[t].key, val |-> loc[t].value]))

\* mutation of new_root_page: the new root is typed Metadata
new_root_page_metadata(orig_child, new_child, pds) ==
    LET r0 == set_separator(FreshPage("Metadata", 0, pds), MAX_KEY)
        r1 == internal_add_item(r0, orig_child)
        r2 == internal_add_item(r1.page, new_child)
    IN  [ok |-> r1.res = "ok" /\ r2.res = "ok", page |-> r2.page]

\* mutation of new_root_page: the downlink to the new sibling is left out
new_root_page_single(orig_child, new_child, pds) ==
    LET r0 == set_separator(FreshPage("Internal", 0, pds), MAX_KEY)
        r1 == internal_add_item(r0, orig_child)
    IN  [ok |-> r1.res = "ok", page |-> r1.page]

\* insert.rs:186-203: the new internal root over orig_child and new_child
new_root_page(orig_child, new_child, pds) ==
    LET r0 == set_separator(FreshPage("Internal", 0, pds), MAX_KEY)
        r1 == internal_add_item(r0, orig_child)
        r2 == internal_add_item(r1.page, new_child)
    IN  [ok |-> r1.res = "ok" /\ r2.res = "ok", page |-> r2.page]

\* insert.rs:169-184 and 236-241: pop the parent and latch it exclusively.  A parent
\* other than 0 is an internal node: from_write_lock (internal_node.rs:354-357)
\* asserts node_type Leaf and panics
InsertUp(t) ==
    /\ pc[t] = "ins_up"
    /\ IF loc[t].traversed = <<>>
       THEN InsertReturn(t, loc[t].ret, pages, used_cnt, rw_locks)
       ELSE LET parent_node_no == loc[t].traversed[Len(loc[t].traversed)]
                popped == [loc[t] EXCEPT !.traversed = SubSeq(@, 1, Len(@) - 1)]
            IN  IF ~Allocated(parent_node_no)
                THEN Panic(t, pages, used_cnt, rw_locks)
                ELSE /\ CanWrite(parent_node_no)
                     /\ IF \/ rw_locks[parent_node_no].poisoned
                           \/ parent_node_no # 0
                           \/ pages[0].special.node_type # "Metadata"
                        THEN Panic(t, pages, used_cnt,
                                   WriteLocked(rw_locks, parent_node_no, t))
                        ELSE Goto(t, "ins_up_meta", popped, pages, used_cnt,
                                  WriteLocked(rw_locks, parent_node_no, t))

\* insert.rs:186-234: the root split.  Either metadata still names orig_child and
\* a new root is made, or the root grew meanwhile and the rescue descent starts
InsertUpMeta(t) ==
    /\ pc[t] = "ins_up_meta"
    /\ LET root == root_no(pages[0])
           new_root_no == used_cnt
           nr == new_root_page(loc[t].orig_child, loc[t].new_child, page_data_size)
           grown == [new_page_pages(nr.page) EXCEPT ![0] = set_root_no(@, new_root_no)]
       IN  IF root = loc[t].orig_child.val
           THEN IF used_cnt = NumPages
                THEN Panic(t, pages, used_cnt, rw_locks)
                ELSE IF ~nr.ok
                THEN Panic(t, grown, used_cnt + 1, new_page_locks(rw_locks, t))
                ELSE InsertReturn(t, loc[t].ret, grown, used_cnt + 1,
                                  new_page_locks(rw_locks, t))
           ELSE IF root = None
           THEN Panic(t, pages, used_cnt, rw_locks)
           ELSE Goto(t, "ins_rescue",
                     [loc[t] EXCEPT !.traversed = Append(@, 0), !.page_no = root],
                     pages, used_cnt, rw_locks)

\* insert.rs:211-218: internal_node::fetch_page_read(page_no).unwrap() takes the
\* shared latch of the current root while the thread holds the metadata latch and
\* its child's latch exclusively
InsertRescue(t) ==
    /\ pc[t] = "ins_rescue"
    /\ LET p == loc[t].page_no
       IN  IF ~Allocated(p)
           THEN Panic(t, pages, used_cnt, rw_locks)
           ELSE /\ CanRead(p)
                /\ IF rw_locks[p].poisoned
                   THEN Panic(t, pages, used_cnt, rw_locks)
                   ELSE Goto(t, "ins_rescue_held", loc[t], pages, used_cnt,
                             ReadLocked(rw_locks, p, t))

\* internal_node.rs:335-338 under fetch_page_read: from_read_lock asserts node_type
\* Leaf, which the internal root fails: the thread panics with the three latches
InsertRescueHeld(t) ==
    /\ pc[t] = "ins_rescue_held"
    /\ Panic(t, pages, used_cnt, rw_locks)

(***************************************************************************)
(* btree/search.rs: BTree::search                                          *)
(***************************************************************************)
\* search.rs:31: fetch_page_read(page_no).unwrap()
SearchFetch(t) ==
    /\ pc[t] = "srch_fetch"
    /\ LET p == loc[t].page_no
       IN  IF ~Allocated(p)
           THEN Panic(t, pages, used_cnt, rw_locks)
           ELSE /\ CanRead(p)
                /\ IF rw_locks[p].poisoned
                   THEN Panic(t, pages, used_cnt, rw_locks)
                   ELSE Goto(t, "srch_held", loc[t], pages, used_cnt,
                             ReadLocked(rw_locks, p, t))

\* search.rs:38: leaf.item_iter().find(|item_data| key == item_data.key)
find_row(leaf, key) ==
    LET items == item_iter(leaf)
        hits == {i \in DOMAIN items : items[i].key = key}
    IN  IF hits = {} THEN None
        ELSE items[CHOOSE i \in hits : \A j \in hits : i <= j].val

\* search.rs:37: the test that decides between scanning the leaf and moving right
covers(key, leaf) == key < separator(leaf)

\* mutation of no_root_result: page 1 is reported
no_root_result_one == [leaf_page_no |-> 1, value |-> None]

\* search.rs:73-78: the result when the metadata page names no root
no_root_result == [leaf_page_no |-> 0, value |-> None]

\* search.rs:32-82: one turn of the loop on the latched page
SearchHeld(t) ==
    /\ pc[t] = "srch_held"
    /\ LET p == loc[t].page_no
           node == pages[p]
           right_sibling_page_no == node.special.right_sibling_page_no
       IN  CASE node.special.node_type = "Leaf" ->
                  IF covers(loc[t].key, node)
                  THEN SearchReturn(t, p, find_row(node, loc[t].key))
                  ELSE IF right_sibling_page_no = 0
                  THEN SearchReturn(t, p, None)
                  ELSE Goto(t, "srch_fetch",
                            [loc[t] EXCEPT !.page_no = right_sibling_page_no],
                            pages, used_cnt, DropAll(rw_locks, t, FALSE))
            [] node.special.node_type = "Internal" ->
                  Panic(t, pages, used_cnt, rw_locks)
            [] node.special.node_type = "Metadata" ->
                  IF root_no(node) = None
                  THEN SearchReturn(t, no_root_result.leaf_page_no, no_root_result.value)
                  ELSE Goto(t, "srch_fetch", [loc[t] EXCEPT !.page_no = root_no(node)],
                            pages, used_cnt, DropAll(rw_locks, t, FALSE))

Next == \E t \in Threads :
    \/ InsertCall(t)
    \/ PrefillCall(t)
    \/ RaceInsertCall(t)
    \/ SearchCall(t)
    \/ RaceSearchCall(t)
    \/ InsertFetchMeta(t)
    \/ InsertMetaHeld(t)
    \/ InsertMetaWrite(t)
    \/ InsertRootInit(t)
    \/ InsertDescend(t)
    \/ InsertDescendHeld(t)
    \/ InsertFindLeaf(t)
    \/ InsertLeafHeld(t)
    \/ InsertUp(t)
    \/ InsertUpMeta(t)
    \/ InsertRescue(t)
    \/ InsertRescueHeld(t)
    \/ SearchFetch(t)
    \/ SearchHeld(t)

Spec == Init /\ [][Next]_vars

(***************************************************************************)
(* Properties of the tree                                                  *)
(***************************************************************************)
NodePages == {p \in DOMAIN pages : pages[p].special.node_type \in {"Leaf", "Internal"}}
InternalPages == {p \in DOMAIN pages : pages[p].special.node_type = "Internal"}
LeafPages == {p \in DOMAIN pages : pages[p].special.node_type = "Leaf"}
Finished(t) == loc[t].status \in {"returned", "panicked"}
HoldsPair(page, key, value) ==
    \E i \in DOMAIN item_iter(page) : item_iter(page)[i] = [key |-> key, val |-> value]
ValuesOf(page, key) ==
    {item_iter(page)[i].val : i \in {j \in DOMAIN item_iter(page) : item_iter(page)[j].key = key}}

\* C1: once insert(k, v) has returned, every search(k) that starts later returns
\* value == Some(v).  `known` is the value whose insert had returned when the search
\* was called; a search that panics returns nothing.
C1_InsertVisibility ==
    \A t \in Threads :
        (loc[t].op = "search" /\ loc[t].known # None /\ Finished(t))
            => (loc[t].status = "returned" /\ loc[t].ret_value = loc[t].known)

\* C2: in every reachable state every leaf and every internal node keeps
\* key_i <= separator for each non-separator slot i
C2_Ordering ==
    \A p \in NodePages :
        item_cnt(pages[p]) > 0 =>
            \A i \in DOMAIN item_iter(pages[p]) :
                item_iter(pages[p])[i].key <= separator(pages[p])

RECURSIVE chain(_, _)
chain(p, fuel) ==
    LET next == pages[p].special.right_sibling_page_no
    IN  IF fuel = 0 \/ next = 0 \/ next \notin DOMAIN pages
        THEN <<p>>
        ELSE <<p>> \o chain(next, fuel - 1)
ChainOk(c) ==
    /\ \A i \in DOMAIN c : pages[c[i]].special.node_type = pages[c[1]].special.node_type
    /\ \A i \in 1 .. (Len(c) - 1) : separator(pages[c[i]]) < separator(pages[c[i + 1]])
    /\ pages[c[Len(c)]].special.right_sibling_page_no = 0
    /\ separator(pages[c[Len(c)]]) = MAX_KEY

\* C3: following right_sibling from any node visits only nodes of the same level,
\* separators strictly increase along the chain, the chain ends at a node with
\* right_sibling 0 and separator MAX_KEY, and every leaf is on the chain that starts
\* at the first leaf (page 1)
C3_SiblingChain ==
    /\ \A p \in NodePages : ChainOk(chain(p, used_cnt))
    /\ \A q \in LeafPages : \E i \in DOMAIN chain(1, used_cnt) : chain(1, used_cnt)[i] = q

Quiescent == \A t \in Threads : ~(loc[t].op = "insert" /\ loc[t].status = "running")
Downlinks ==
    {<<n, i>> \in InternalPages \X (1 .. NumPages) : i \in DOMAIN item_iter(pages[n])}
DownlinkOk(n, i) ==
    LET d == item_iter(pages[n])[i]
    IN  /\ d.val \in NodePages
        /\ separator(pages[d.val]) = d.key
        /\ Cardinality({e \in Downlinks : item_iter(pages[e[1]])[e[2]].val = d.val}) = 1

\* C4: when no insert is in progress, every downlink (k, c) of every internal node
\* names an allocated non-metadata page c whose separator is k, and c is the target of
\* exactly one downlink
C4_DownlinkConsistency ==
    Quiescent => \A e \in Downlinks : DownlinkOk(e[1], e[2])

InsertReturns(t) ==
    loc[t].op = "insert" /\ loc[t].status = "running" /\ loc'[t].status = "returned"

\* C5: when insert(k, v) returns, the page number it returns is that of the leaf
\* holding (k, v), also when the latched leaf was reached by moving right
C5_InsertReturnsHoldingLeaf ==
    [][\A t \in Threads :
          InsertReturns(t) =>
              /\ loc'[t].ret \in DOMAIN pages'
              /\ HoldsPair(pages'[loc'[t].ret], loc[t].key, loc[t].value)]_vars

SearchEnds(t) ==
    loc[t].op = "search" /\ loc[t].status = "running" /\ loc'[t].status # "running"

\* C6: search(k) on a tree that has a root returns the number of a leaf page, and
\* value == Some(v) exactly when (k, v) is stored in that leaf, also when k equals a
\* leaf's separator
C6_SearchResult ==
    [][\A t \in Threads :
          (SearchEnds(t) /\ root_no(pages[0]) # None) =>
              /\ loc'[t].status = "returned"
              /\ loc'[t].ret \in LeafPages
              /\ IF ValuesOf(pages[loc'[t].ret], loc[t].key) = {}
                 THEN loc'[t].ret_value = None
                 ELSE loc'[t].ret_value \in ValuesOf(pages[loc'[t].ret], loc[t].key)]_vars

NoInsertEver == root_no(pages[0]) = None /\ \A u \in Threads : loc[u].op # "insert"

\* C7: while the metadata page names no root and no insert has run, every search ends
\* by returning {leaf_page_no: 0, value: None}, and page 0 stays the only page
C7_SearchNoRoot ==
    NoInsertEver =>
        /\ used_cnt = 1
        /\ \A t \in Threads :
              (loc[t].op = "search" /\ Finished(t)) =>
                  /\ loc[t].status = "returned"
                  /\ loc[t].ret = 0
                  /\ loc[t].ret_value = None

C7_Witness ==
    /\ NoInsertEver
    /\ \E t \in Threads : loc[t].op = "search" /\ loc[t].status = "returned" /\ loc[t].key = 4

LoggedPairs == [i \in DOMAIN ins_log |-> [key |-> ins_log[i].key, val |-> ins_log[i].value]]

\* C8: the first insert allocates leaf page 1 with separator MAX_KEY, makes it the root
\* and returns 1; while no leaf has split (pages 0 and 1 only) every insert returned 1
\* and slots 1..n of page 1 hold the pairs in the order the inserts returned
C8_FirstInsert ==
    /\ used_cnt = 1 => (ins_log = <<>> /\ root_no(pages[0]) = None)
    /\ used_cnt >= 2 => pages[1].special.node_type = "Leaf"
    /\ ins_log # <<>> => ins_log[1].ret = 1
    /\ used_cnt = 2 =>
          /\ root_no(pages[0]) = 1
          /\ separator(pages[1]) = MAX_KEY
          /\ pages[1].special.right_sibling_page_no = 0
          /\ \A i \in DOMAIN ins_log : ins_log[i].ret = 1
          /\ item_iter(pages[1]) = LoggedPairs

C8_Witness ==
    /\ used_cnt = 2
    /\ Len(ins_log) = 3
    /\ item_cnt(pages[1]) = 4
    /\ ins_log[1].key > ins_log[2].key

SeqBag(seq) ==
    [x \in {seq[i] : i \in DOMAIN seq} |-> Cardinality({i \in DOMAIN seq : seq[i] = x})]
SplitStep(t) == pc[t] = "ins_leaf_held" /\ pc'[t] = "ins_up"
\* insert.rs:411-412 (tests::split_root_leaf): the pairs a leaf holds
max_items_in_leaf ==
    (page_data_size - BTreePageDataSize) \div (LeafNodeItemDataSize + ITEM_POINTER_SIZE)
AscendingFill == \A i \in DOMAIN ins_log : ins_log[i].key = i - 1

\* C9: the step that splits a full leaf leaves, in the original leaf and the new
\* sibling together, exactly the pairs the leaf held plus the inserted pair, each
\* once; and with keys 0..M inserted in ascending order, M the leaf's capacity, the
\* inserts of 0..M-1 return 1 and the insert of M returns 2
C9_LeafSplitConserves ==
    [][/\ \A t \in Threads :
            SplitStep(t) =>
                SeqBag(item_iter(pages'[loc[t].page_no])) (+) SeqBag(item_iter(pages'[used_cnt]))
                    = SeqBag(item_iter(pages[loc[t].page_no]))
                        (+) SeqBag(<<[key |-> loc[t].key, val |-> loc[t].value]>>)
       /\ AscendingFill' =>
            \A i \in DOMAIN ins_log' :
                /\ i <= max_items_in_leaf => ins_log'[i].ret = 1
                /\ i = max_items_in_leaf + 1 => ins_log'[i].ret = 2]_vars

C9_Witness ==
    /\ AscendingFill
    /\ Len(ins_log) = max_items_in_leaf + 1
    /\ ins_log[Len(ins_log)].ret = 2
    /\ used_cnt = 4

\* the page latch thread t is about to request, and how
Wants(t) ==
    CASE pc[t] = "ins_meta_read" -> [page |-> 0, mode |-> "read"]
      [] pc[t] = "ins_meta_write" -> [page |-> 0, mode |-> "write"]
      [] pc[t] = "ins_descend" -> [page |-> loc[t].leaf_node_no, mode |-> "read"]
      [] pc[t] = "ins_find_leaf" -> [page |-> loc[t].page_no, mode |-> "write"]
      [] pc[t] = "ins_up" /\ loc[t].traversed # <<>> ->
            [page |-> loc[t].traversed[Len(loc[t].traversed)], mode |-> "write"]
      [] pc[t] = "ins_rescue" -> [page |-> loc[t].page_no, mode |-> "read"]
      [] pc[t] = "srch_fetch" -> [page |-> loc[t].page_no, mode |-> "read"]
      [] OTHER -> [page |-> None, mode |-> "none"]
WaitsFor(t, u) ==
    /\ Wants(t).page \in DOMAIN rw_locks
    /\ \/ rw_locks[Wants(t).page].writer = u
       \/ Wants(t).mode = "write" /\ u \in rw_locks[Wants(t).page].readers

RECURSIVE search_from(_, _, _)
search_from(page_no, key, fuel) ==
    IF fuel = 0 \/ ~Allocated(page_no) \/ rw_locks[page_no].poisoned
    THEN [status |-> "panicked", leaf_page_no |-> None, value |-> None]
    ELSE CASE pages[page_no].special.node_type = "Leaf" ->
                IF covers(key, pages[page_no])
                THEN [status |-> "returned", leaf_page_no |-> page_no,
                      value |-> find_row(pages[page_no], key)]
                ELSE IF pages[page_no].special.right_sibling_page_no = 0
                THEN [status |-> "returned", leaf_page_no |-> page_no, value |-> None]
                ELSE search_from(pages[page_no].special.right_sibling_page_no, key, fuel - 1)
           [] pages[page_no].special.node_type = "Internal" ->
                [status |-> "panicked", leaf_page_no |-> None, value |-> None]
           [] pages[page_no].special.node_type = "Metadata" ->
                IF root_no(pages[page_no]) = None
                THEN [status |-> "returned", leaf_page_no |-> no_root_result.leaf_page_no,
                      value |-> no_root_result.value]
                ELSE search_from(root_no(pages[page_no]), key, fuel - 1)

LeafSlots(key) ==
    {<<p, i>> \in LeafPages \X (1 .. NumPages * 8) :
        i \in DOMAIN item_iter(pages[p]) /\ item_iter(pages[p])[i].key = key}
Joined == \A t \in Threads : loc[t].status # "running"

\* C11: once every thread has finished its call, every key whose insert returned is
\* stored in exactly one leaf slot, with its own value, and a search for it returns
\* that value
C11_ConcurrentInsertsSerial ==
    (scenario = "race" /\ Joined) =>
        \A i \in DOMAIN ins_log :
            /\ Cardinality(LeafSlots(ins_log[i].key)) = 1
            /\ \A e \in LeafSlots(ins_log[i].key) :
                   item_iter(pages[e[1]])[e[2]].val = ins_log[i].value
            /\ search_from(0, ins_log[i].key, NumPages + 1).status = "returned"
            /\ search_from(0, ins_log[i].key, NumPages + 1).value = ins_log[i].value

\* C12: page 0 is the metadata page, no other page is, and the root number, when
\* present, names an allocated page that is not the metadata page
C12_MetadataUnique ==
    /\ pages[0].special.node_type = "Metadata"
    /\ \A p \in DOMAIN pages : p # 0 => pages[p].special.node_type \in {"Leaf", "Internal"}
    /\ root_no(pages[0]) # None => root_no(pages[0]) \in NodePages

C12_Witness ==
    /\ used_cnt = 5
    /\ pages[3].special.node_type = "Internal"
    /\ root_no(pages[0]) = 3
    /\ pages[4].special.node_type = "Leaf"

\* C14: on every page either nobody holds the exclusive latch, or one thread holds it
\* and nobody holds a shared latch; shared latches may be held by several threads
C14_LatchExclusion ==
    \A p \in DOMAIN rw_locks :
        /\ rw_locks[p].writer \in Threads \cup {NoThread}
        /\ rw_locks[p].readers \subseteq Threads
        /\ rw_locks[p].writer # NoThread => rw_locks[p].readers = {}

C14_Witness ==
    /\ \E p \in DOMAIN rw_locks : Cardinality(rw_locks[p].readers) >= 2
    /\ \E q \in DOMAIN rw_locks : rw_locks[q].writer \in Threads

\* C23: root materialization is race-free.  An insert that rechecks the root number
\* under the exclusive metadata latch allocates the root leaf (the next page, a leaf
\* with separator MAX_KEY and no sibling, recorded in the metadata) only when no root
\* is recorded; when one is recorded it allocates nothing and descends from it, and
\* a recorded root is never unset: one root leaf is allocated, whatever the race
C23_RootMaterializedOnce ==
    [][\A t \in Threads :
          /\ root_no(pages[0]) # None => root_no(pages'[0]) # None
          /\ (pc[t] = "ins_meta_write_held" /\ pc'[t] # pc[t]) =>
                 IF root_no(pages[0]) = None
                 THEN /\ used_cnt' = used_cnt + 1
                      /\ root_no(pages'[0]) = used_cnt
                      /\ pages'[used_cnt].special = [node_type |-> "Leaf",
                                                     right_sibling_page_no |-> 0]
                      /\ separator(pages'[used_cnt]) = MAX_KEY
                      /\ item_cnt(pages'[used_cnt]) = 1
                      /\ loc'[t].leaf_node_no = used_cnt
                 ELSE /\ used_cnt' = used_cnt
                      /\ pages' = pages
                      /\ loc'[t].leaf_node_no = root_no(pages[0])]_vars

\* two inserts went for the exclusive metadata latch on the empty tree; one has made
\* the root leaf and the other, now holding the latch, is about to recheck
C23_Witness ==
    \E t \in Threads :
        /\ pc[t] = "ins_meta_write_held"
        /\ root_no(pages[0]) = 1
        /\ pages[1].special.node_type = "Leaf"
        /\ \E u \in Threads \ {t} : loc[u].op = "insert" /\ loc[u].leaf_node_no = 1

\* the node a propagating insert has just split (the leaf it holds latched) and the
\* sibling the split gave it
JustSplit(t) == loc[t].page_no
NewSibling(t) == pages[JustSplit(t)].special.right_sibling_page_no

\* C24: root growth.  When the propagation has popped the sentinel 0 and the metadata
\* still names the just-split node as root, insert allocates one internal node with
\* separator MAX_KEY and no right sibling whose downlinks are exactly (separator of
\* the split node, its page) and (separator of the new sibling, its page), records
\* it as root and returns; the old root and its sibling are leaves, so the height
\* grows by one
C24_RootGrowth ==
    [][\A t \in Threads :
          (/\ pc[t] = "ins_up_meta"
           /\ pc'[t] # pc[t]
           /\ root_no(pages[0]) = JustSplit(t)) =>
              /\ used_cnt' = used_cnt + 1
              /\ root_no(pages'[0]) = used_cnt
              /\ pages'[used_cnt].special = [node_type |-> "Internal",
                                             right_sibling_page_no |-> 0]
              /\ separator(pages'[used_cnt]) = MAX_KEY
              /\ item_iter(pages'[used_cnt]) =
                     <<[key |-> separator(pages[JustSplit(t)]), val |-> JustSplit(t)],
                       [key |-> separator(pages[NewSibling(t)]), val |-> NewSibling(t)]>>
              /\ \A p \in 0 .. used_cnt - 1 : p # 0 => pages'[p] = pages[p]
              /\ {JustSplit(t), NewSibling(t)} \subseteq LeafPages
              /\ loc'[t].status = "returned"]_vars

\* an insert has split the root leaf, grown the tree by a new root and returned
C24_Witness ==
    \E t \in Threads :
        /\ loc[t].op = "insert" /\ loc[t].status = "returned"
        /\ root_no(pages[0]) \in InternalPages
        /\ item_cnt(pages[root_no(pages[0])]) = 3
        /\ \E i \in DOMAIN ins_log :
               /\ ins_log[i].key = loc[t].key
               /\ ins_log[i].ret \in LeafPages

\* the steps of the upward propagation of a split
Propagating(t) ==
    pc[t] \in {"ins_up", "ins_up_meta", "ins_rescue", "ins_rescue_held"}

\* C25: the rescue of a root that grew meanwhile.  When the propagation has popped
\* the sentinel 0 and the metadata names a root other than the just-split node, the
\* insert allocates no root; it starts the rescue descent from the current root, and
\* the descent ends with the propagation resumed on the stack <<0, parent>>, parent
\* an internal node holding the downlink to the just-split node
C25_RootGrewRescue ==
    [][\A t \in Threads :
          /\ (/\ pc[t] = "ins_up_meta"
              /\ pc'[t] # pc[t]
              /\ root_no(pages[0]) # JustSplit(t)) =>
                 /\ pc'[t] = "ins_rescue"
                 /\ used_cnt' = used_cnt
                 /\ loc'[t].page_no = root_no(pages[0])
          /\ (pc[t] \in {"ins_rescue", "ins_rescue_held"} /\ pc'[t] # pc[t]) =>
                 /\ pc'[t] \in {"ins_rescue", "ins_rescue_held", "ins_up"}
                 /\ pc'[t] = "ins_up" =>
                        /\ Len(loc'[t].traversed) = 2
                        /\ loc'[t].traversed[1] = 0
                        /\ loc'[t].traversed[2] \in InternalPages
                        /\ \E i \in DOMAIN item_iter(pages[loc'[t].traversed[2]]) :
                               item_iter(pages[loc'[t].traversed[2]])[i].val
                                   = JustSplit(t)]_vars

\* C26: the upward propagation terminates with a return.  No step of the propagation
\* of a split (the rescue descent included) aborts the insert: each step continues
\* the propagation or ends it with the insert returning the leaf of the pair
C26_PropagationReturns ==
    [][\A t \in Threads :
          (Propagating(t) /\ pc'[t] # pc[t]) =>
              \/ Propagating(t)'
              \/ loc'[t].status = "returned" /\ loc'[t].ret = loc[t].ret]_vars

\* C28: the leaf split post-condition.  The step that splits leaf L into L and L'
\* gives L' the old right sibling of L and the old separator of L, links L to L',
\* leaves L a strictly smaller separator, and stores the inserted pair on the side
\* whose range contains its key: on L when key <= separator(L), on L' otherwise
C28_LeafSplitPost ==
    [][\A t \in Threads :
          SplitStep(t) =>
              /\ pages'[used_cnt].special.right_sibling_page_no
                     = pages[JustSplit(t)].special.right_sibling_page_no
              /\ pages'[JustSplit(t)].special.right_sibling_page_no = used_cnt
              /\ separator(pages'[used_cnt]) = separator(pages[JustSplit(t)])
              /\ separator(pages'[JustSplit(t)]) < separator(pages[JustSplit(t)])
              /\ HoldsPair(pages'[JustSplit(t)], loc[t].key, loc[t].value)
                     <=> loc[t].key <= separator(pages'[JustSplit(t)])
              /\ HoldsPair(pages'[used_cnt], loc[t].key, loc[t].value)
                     <=> /\ separator(pages'[JustSplit(t)]) < loc[t].key
                         /\ loc[t].key <= separator(pages'[used_cnt])]_vars

\* the position, in ascending key order, of the first of n items of `size` bytes
\* whose addition makes the cumulative size exceed half of the total
FirstOverflow(n, size) ==
    CHOOSE c \in 1 .. n :
        /\ c * size > (n * size) \div 2
        /\ \A d \in 1 .. (c - 1) : d * size <= (n * size) \div 2

\* the items a split step found on the leaf, in ascending order
SplitItems(t) == sort(item_iter(pages[JustSplit(t)]))
Pending(t) == [key |-> loc[t].key, val |-> loc[t].value]

\* C29 as stated: the split node's new separator is the key of the first-overflow
\* item, which stays on the split node with all items of strictly greater key
C29_SeparatorIsFirstOverflow ==
    [][\A t \in Threads :
          SplitStep(t) =>
              LET c == FirstOverflow(Len(SplitItems(t)), LeafNodeItemDataSize)
              IN  /\ separator(pages'[JustSplit(t)]) = SplitItems(t)[c].key
                  /\ \A i \in c .. Len(SplitItems(t)) :
                         HoldsPair(pages'[JustSplit(t)], SplitItems(t)[i].key,
                                   SplitItems(t)[i].val)]_vars

\* C29 amended: the split node's new separator is the key of the item that follows
\* the first-overflow item in ascending key order; the first-overflow item and the
\* items before it move to the new sibling, the following item and all items after
\* it stay on the split node; the outcome is a function of the items alone
C29_SeparatorFollowsFirstOverflow ==
    [][\A t \in Threads :
          SplitStep(t) =>
              LET c == FirstOverflow(Len(SplitItems(t)), LeafNodeItemDataSize)
                  moved == SubSeq(SplitItems(t), 1, c)
                  kept == SubSeq(SplitItems(t), c + 1, Len(SplitItems(t)))
              IN  /\ c < Len(SplitItems(t))
                  /\ separator(pages'[JustSplit(t)]) = SplitItems(t)[c + 1].key
                  /\ item_iter(pages'[JustSplit(t)]) \in {kept, Append(kept, Pending(t))}
                  /\ item_iter(pages'[used_cnt]) \in {moved, Append(moved, Pending(t))}]_vars

\* a leaf has been split: the new sibling holds the first-overflow item and the
\* split leaf's separator is a key it still holds
C29_Witness ==
    \E p, q \in LeafPages :
        /\ pages[p].special.right_sibling_page_no = q
        /\ item_cnt(pages[q]) >= 3
        /\ HoldsPair(pages[p], separator(pages[p]), ValueOf(separator(pages[p])))
        /\ \E t \in Threads : Propagating(t) /\ JustSplit(t) = p

\* C33: the metadata adapter.  The metadata page never holds more than one item;
\* root_no() is None exactly when it holds none and Some(n) exactly when it holds
\* one; and a step that sets the root number, from either state, leaves exactly one
\* item, the number of the page just made root
MetadataOk(page) ==
    /\ item_cnt(page) <= 1
    /\ root_no(page) = None <=> item_cnt(page) = 0
    /\ root_no(page) # None <=> item_cnt(page) = 1
C33_MetadataAdapter ==
    MetadataOk(pages[0]) /\
    [][/\ MetadataOk(pages'[0])
       /\ pages'[0] # pages[0] =>
             /\ item_cnt(pages'[0]) = 1
             /\ root_no(pages'[0]) = used_cnt
             /\ get_item_v2(pages'[0], 0) = KeyItem(used_cnt)
             /\ pages'[0].special = pages[0].special]_vars

\* the root number has been set on the empty metadata page and set again by a root
\* growth
C33_Witness ==
    /\ item_cnt(pages[0]) = 1
    /\ root_no(pages[0]) = 3
    /\ pages[1].special.node_type = "Leaf"
    /\ \E i \in DOMAIN item_iter(pages[3]) : item_iter(pages[3])[i].val = 1

(***************************************************************************)
(* page.rs byte by byte.  The component specifications below keep a page   *)
(* as its header and its data array [0 .. PAGE_DATA_SIZE-1 -> byte], and   *)
(* an item as the bytes Item::write leaves in the buffer.                  *)
(***************************************************************************)
ZeroData(pds) == [i \in 0 .. pds - 1 |-> 0]

\* Page::new
Page_new(special_size, pds) ==
    [header |-> PageHeaderNew(special_size, pds), data |-> ZeroData(pds)]

\* a copy of bytes into data[offset ..], and a read of size bytes from data[offset ..]
write_bytes(data, offset, bytes) ==
    [i \in DOMAIN data |->
        IF offset <= i /\ i < offset + Len(bytes) THEN bytes[i - offset + 1] ELSE data[i]]
read_bytes(data, offset, size) == [k \in 1 .. size |-> data[offset + k - 1]]

\* Page::special_data / special_data_mut index data[PAGE_DATA_SIZE - special_size]
\* after asserting that the type's size is special_size
special_data_ok(page, size, pds) ==
    size = page.header.special_size /\ pds - page.header.special_size < pds
special_data(page, pds) ==
    read_bytes(page.data, pds - page.header.special_size, page.header.special_size)
special_data_mut(page, bytes, pds) ==
    [page EXCEPT !.data = write_bytes(@, pds - page.header.special_size, bytes)]

\* the bytes of the item area, data[0 .. PAGE_DATA_SIZE - special_size - 1]
item_area(page, pds) == read_bytes(page.data, 0, pds - page.header.special_size)

(***************************************************************************)
(* FetcherSpec: InMemoryPageFetcher alone (page_fetcher.rs), driven by     *)
(* threads that call new_page, fetch_page_read and fetch_page_write, drop  *)
(* the guards they hold, and may panic while holding them.  All 16 pages   *)
(* and latches exist from construction on; script is the special data the  *)
(* callers pass to new_page, call after call.                              *)
(***************************************************************************)
FetcherThreads == 1 .. NumFetcherThreads

\* BTreePageData {node_type: Leaf, right_sibling_page_no: 7} and the page.rs tests'
\* TestSpecialData {val: 8, data: [0, 1, .., 7]} as their bytes
LeafSpecialData == <<2, 0, 0, 0, 7, 0, 0, 0>>
TestSpecialData == <<8, 0, 0, 0, 0, 1, 2, 3, 4, 5, 6, 7>>
SpecialPlans == {<<LeafSpecialData>>, <<TestSpecialData>>,
                 <<TestSpecialData, LeafSpecialData>>}

\* the page numbers the callers pass to fetch_page_read / fetch_page_write
ProbePages == {0, 1, NumPages - 1, NumPages}

\* InMemoryPageFetcher::new
FetcherInit ==
    /\ scenario = "fetcher"
    /\ script \in SpecialPlans
    /\ page_data_size = FetcherPageDataSize
    /\ used_cnt = 0
    /\ pages = [p \in 0 .. NumPages - 1 |-> Page_new(0, FetcherPageDataSize)]
    /\ rw_locks = [p \in 0 .. NumPages - 1 |-> FreeLock]
    /\ pc = [t \in Threads |-> IF t \in FetcherThreads THEN "idle" ELSE "off"]
    /\ loc = [t \in Threads |-> NoCall]
    /\ ins_log = <<>>
    /\ unit = [new_page_calls |-> 0, new_page_returns |-> <<>>]

Held(t) == {p \in DOMAIN rw_locks : rw_locks[p].writer = t \/ t \in rw_locks[p].readers}

\* the call of t ends: by a return of ret, or by a panic that unwinds its guards
FetcherReturn(t, op, page_no, ret, locks) ==
    /\ pc' = pc
    /\ loc' = [loc EXCEPT ![t] = [NoCall EXCEPT !.op = op, !.status = "returned",
                                                !.page_no = page_no, !.ret = ret]]
    /\ rw_locks' = locks
FetcherPanic(t, op, page_no, locks) ==
    /\ pc' = [pc EXCEPT ![t] = "panicked"]
    /\ loc' = [loc EXCEPT ![t] = [NoCall EXCEPT !.op = op, !.status = "panicked",
                                                !.page_no = page_no]]
    /\ rw_locks' = DropAll(locks, t, TRUE)

\* page_fetcher.rs:68-77
fetch_page_read(t, page_no) ==
    /\ pc[t] = "idle" /\ page_no \notin Held(t) /\ Cardinality(Held(t)) < MaxHeld
    /\ IF used_cnt <= page_no
       THEN FetcherReturn(t, "fetch_page_read", page_no, None, rw_locks)
       ELSE IF rw_locks[page_no].poisoned
       THEN FetcherPanic(t, "fetch_page_read", page_no, rw_locks)
       ELSE /\ CanRead(page_no)
            /\ FetcherReturn(t, "fetch_page_read", page_no, page_no,
                             ReadLocked(rw_locks, page_no, t))
    /\ UNCHANGED <<scenario, script, page_data_size, used_cnt, pages, ins_log, unit>>

\* page_fetcher.rs:79-88
fetch_page_write(t, page_no) ==
    /\ pc[t] = "idle" /\ page_no \notin Held(t) /\ Cardinality(Held(t)) < MaxHeld
    /\ IF used_cnt <= page_no
       THEN FetcherReturn(t, "fetch_page_write", page_no, None, rw_locks)
       ELSE IF rw_locks[page_no].poisoned
       THEN FetcherPanic(t, "fetch_page_write", page_no, rw_locks)
       ELSE /\ CanWrite(page_no)
            /\ FetcherReturn(t, "fetch_page_write", page_no, page_no,
                             WriteLocked(rw_locks, page_no, t))
    /\ UNCHANGED <<scenario, script, page_data_size, used_cnt, pages, ins_log, unit>>

\* page_fetcher.rs:102-105: the page new_page leaves behind the guard
new_page_header_kept(page, special_data_bytes, pds) ==
    special_data_mut([page EXCEPT !.data = ZeroData(pds)], special_data_bytes, pds)
new_page_init(page, special_data_bytes, pds) ==
    special_data_mut([header |-> PageHeaderNew(Len(special_data_bytes), pds),
                      data |-> ZeroData(pds)],
                     special_data_bytes, pds)

\* page_fetcher.rs:106: the page number new_page returns once used_cnt is cnt
new_page_no_next(cnt) == cnt
new_page_no(cnt) == cnt - 1

\* the special data the next new_page call is given
NextSpecialData == script[(unit.new_page_calls % Len(script)) + 1]

\* page_fetcher.rs:90-111
new_page(t, special_data_bytes) ==
    /\ pc[t] = "idle" /\ Cardinality(Held(t)) < MaxHeld
    /\ special_data_bytes = NextSpecialData
    /\ unit' = [unit EXCEPT
           !.new_page_calls = @ + 1,
           !.new_page_returns = IF used_cnt = NumPages THEN @
                                ELSE Append(@, new_page_no(used_cnt + 1))]
    /\ IF used_cnt = NumPages
       THEN /\ FetcherPanic(t, "new_page", None, rw_locks)
            /\ UNCHANGED <<used_cnt, pages>>
       ELSE /\ CanWrite(used_cnt) /\ ~rw_locks[used_cnt].poisoned
            /\ used_cnt' = used_cnt + 1
            /\ pages' = [pages EXCEPT ![used_cnt] =
                            new_page_init(@, special_data_bytes, page_data_size)]
            /\ FetcherReturn(t, "new_page", None, new_page_no(used_cnt + 1),
                             WriteLocked(rw_locks, used_cnt, t))
    /\ UNCHANGED <<scenario, script, page_data_size, ins_log>>

\* a guard of t goes out of scope
DropGuard(t, page_no) ==
    /\ pc[t] = "idle" /\ page_no \in Held(t)
    /\ rw_locks' = [rw_locks EXCEPT
           ![page_no].writer = IF @ = t THEN NoThread ELSE @,
           ![page_no].readers = @ \ {t}]
    /\ UNCHANGED <<scenario, script, page_data_size, used_cnt, pages, pc, loc, ins_log, unit>>

\* the caller panics with guards in hand (as BTree::insert does, insert.rs:212-218)
CallerPanics(t) ==
    /\ pc[t] = "idle" /\ Held(t) # {}
    /\ pc' = [pc EXCEPT ![t] = "panicked"]
    /\ rw_locks' = DropAll(rw_locks, t, TRUE)
    /\ UNCHANGED <<scenario, script, page_data_size, used_cnt, pages, loc, ins_log, unit>>

FetcherNext ==
    \E t \in FetcherThreads :
        \/ \E s \in UNION {{pl[i] : i \in DOMAIN pl} : pl \in SpecialPlans} : new_page(t, s)
        \/ \E p \in ProbePages : fetch_page_read(t, p)
        \/ \E p \in ProbePages : fetch_page_write(t, p)
        \/ \E p \in DOMAIN rw_locks : DropGuard(t, p)
        \/ CallerPanics(t)

FetcherSpec == FetcherInit /\ [][FetcherNext]_vars

(***************************************************************************)
(* NewPageSpec: new_page statement by statement.  used_cnt is a Cell<usize>,  *)
(* read and written without synchronisation, so the threads interleave at     *)
(* each of its reads and writes and at the latch acquisition.  A thread keeps *)
(* the count it read in used_cnt_read and the latch index it computed in      *)
(* lock_idx; unit.new_page_returns records, for each return, the page number  *)
(* returned and the page whose latch came with it.                            *)
(***************************************************************************)
NoNewPage == [op |-> "new_page", status |-> "running", special_data |-> <<>>,
              used_cnt_read |-> 0, lock_idx |-> 0, ret |-> None]

\* the fetcher after AllocatedBefore calls of new_page whose guards were dropped
NewPageInit ==
    /\ scenario = "new_page"
    /\ script \in SpecialPlans
    /\ page_data_size = FetcherPageDataSize
    /\ used_cnt \in {0, AllocatedBefore}
    /\ pages = [p \in 0 .. NumPages - 1 |->
                   IF p < used_cnt
                   THEN new_page_init(Page_new(0, FetcherPageDataSize), script[1],
                                      FetcherPageDataSize)
                   ELSE Page_new(0, FetcherPageDataSize)]
    /\ rw_locks = [p \in 0 .. NumPages - 1 |-> FreeLock]
    /\ pc = [t \in Threads |-> IF t \in FetcherThreads THEN "idle" ELSE "off"]
    /\ loc = [t \in Threads |-> NoCall]
    /\ ins_log = <<>>
    /\ unit = [new_page_calls |-> 0, new_page_returns |-> <<>>]

NewPageStep(t, next, newloc) ==
    /\ pc' = [pc EXCEPT ![t] = next]
    /\ loc' = [loc EXCEPT ![t] = newloc]

\* a thread holding no guard calls new_page(special_data)
NewPageCall(t) ==
    /\ pc[t] = "idle" /\ Held(t) = {}
    /\ unit.new_page_calls < MaxNewPageCalls
    /\ NewPageStep(t, "np_check", [NoNewPage EXCEPT !.special_data = NextSpecialData])
    /\ unit' = [unit EXCEPT !.new_page_calls = @ + 1]
    /\ UNCHANGED <<scenario, script, page_data_size, used_cnt, pages, rw_locks, ins_log>>

\* page_fetcher.rs:91-93: used_cnt.get() == pages.len() panics
NewPageCheck(t) ==
    /\ pc[t] = "np_check"
    /\ IF used_cnt = NumPages
       THEN NewPageStep(t, "panicked", [loc[t] EXCEPT !.status = "panicked"])
       ELSE NewPageStep(t, "np_get", loc[t])
    /\ UNCHANGED <<scenario, script, page_data_size, used_cnt, pages, rw_locks, ins_log, unit>>

\* page_fetcher.rs:94: the argument used_cnt.get() + 1 is evaluated
NewPageGet(t) ==
    /\ pc[t] = "np_get"
    /\ NewPageStep(t, "np_set", [loc[t] EXCEPT !.used_cnt_read = used_cnt])
    /\ UNCHANGED <<scenario, script, page_data_size, used_cnt, pages, rw_locks, ins_log, unit>>

\* page_fetcher.rs:94: used_cnt.set(..)
NewPageSet(t) ==
    /\ pc[t] = "np_set"
    /\ used_cnt' = loc[t].used_cnt_read + 1
    /\ NewPageStep(t, "np_index", loc[t])
    /\ UNCHANGED <<scenario, script, page_data_size, pages, rw_locks, ins_log, unit>>

\* page_fetcher.rs:96-98: rw_locks.get(used_cnt.get() - 1); past the end the
\* unwrap of line 100 panics
NewPageIndex(t) ==
    /\ pc[t] = "np_index"
    /\ IF used_cnt - 1 \in DOMAIN rw_locks
       THEN NewPageStep(t, "np_latch", [loc[t] EXCEPT !.lock_idx = used_cnt - 1])
       ELSE NewPageStep(t, "panicked", [loc[t] EXCEPT !.status = "panicked"])
    /\ UNCHANGED <<scenario, script, page_data_size, used_cnt, pages, rw_locks, ins_log, unit>>

\* page_fetcher.rs:99: rw_lock.write().unwrap() blocks until the latch is free
NewPageLatch(t) ==
    /\ pc[t] = "np_latch"
    /\ CanWrite(loc[t].lock_idx)
    /\ IF rw_locks[loc[t].lock_idx].poisoned
       THEN /\ NewPageStep(t, "panicked", [loc[t] EXCEPT !.status = "panicked"])
            /\ UNCHANGED rw_locks
       ELSE /\ NewPageStep(t, "np_init", loc[t])
            /\ rw_locks' = WriteLocked(rw_locks, loc[t].lock_idx, t)
    /\ UNCHANGED <<scenario, script, page_data_size, used_cnt, pages, ins_log, unit>>

\* page_fetcher.rs:102-110: the page behind the guard is initialised, then
\* page_no = used_cnt.get() - 1 is returned with the guard
NewPageReturn(t) ==
    /\ pc[t] = "np_init"
    /\ pages' = [pages EXCEPT ![loc[t].lock_idx] =
                    new_page_init(@, loc[t].special_data, page_data_size)]
    /\ NewPageStep(t, "idle", [loc[t] EXCEPT !.status = "returned",
                                             !.ret = new_page_no(used_cnt)])
    /\ unit' = [unit EXCEPT !.new_page_returns =
                    Append(@, [page_no |-> new_page_no(used_cnt),
                               latched |-> loc[t].lock_idx])]
    /\ UNCHANGED <<scenario, script, page_data_size, used_cnt, rw_locks, ins_log>>

NewPageNext ==
    \E t \in FetcherThreads :
        \/ NewPageCall(t)
        \/ NewPageCheck(t)
        \/ NewPageGet(t)
        \/ NewPageSet(t)
        \/ NewPageIndex(t)
        \/ NewPageLatch(t)
        \/ NewPageReturn(t)
        \/ \E p \in DOMAIN rw_locks : DropGuard(t, p)

NewPageSpec == NewPageInit /\ [][NewPageNext]_vars

\* C22: concurrent new_page calls.  In any interleaving of the statements of
\* new_page the calls that have returned received distinct page numbers, the
\* numbers follow the ones allocated before without a gap, and each call returned
\* the number of the page whose exclusive latch it was given
C22_ConcurrentNewPage ==
    LET returns == unit.new_page_returns
        first == used_cnt - Len(returns)
    IN  (\A t \in FetcherThreads : pc[t] = "idle") =>
            /\ \A i, j \in DOMAIN returns : i # j => returns[i].page_no # returns[j].page_no
            /\ {returns[i].page_no : i \in DOMAIN returns} = first .. (used_cnt - 1)
            /\ \A i \in DOMAIN returns : returns[i].page_no = returns[i].latched

(***************************************************************************)
(* Properties of FetcherSpec.                                              *)
(***************************************************************************)
DenseFromZero(returns) == \A i \in DOMAIN returns : returns[i] = i - 1

\* C13 as stated: whatever the sequence of new_page calls, made one after another,
\* call number i (from 0) returns page number i
C13_EveryCallReturnsItsIndex ==
    /\ Len(unit.new_page_returns) = unit.new_page_calls
    /\ DenseFromZero(unit.new_page_returns)

\* C13: the calls of a sequence of new_page calls that return are its first NumPages
\* calls, and call number i (from 0) of these returns page number i: the numbers are
\* dense, start at 0 and none is returned twice; every later call panics
C13_MonotonicAllocation ==
    /\ Len(unit.new_page_returns) =
           IF unit.new_page_calls < NumPages THEN unit.new_page_calls ELSE NumPages
    /\ DenseFromZero(unit.new_page_returns)
    /\ used_cnt = Len(unit.new_page_returns)

C13_Witness ==
    /\ Len(unit.new_page_returns) = NumPages
    /\ unit.new_page_calls = NumPages

\* C15: fetch_page_read(p) and fetch_page_write(p) return None exactly when page p has
\* not been allocated (p >= used_cnt), and then change nothing in the fetcher;
\* otherwise they return a guard for page p
C15_FetchNoneIffUnallocated ==
    [][\A t \in FetcherThreads, p \in ProbePages :
          (fetch_page_read(t, p) \/ fetch_page_write(t, p)) =>
              /\ loc'[t].status = "returned"
              /\ IF used_cnt <= p
                 THEN /\ loc'[t].ret = None
                      /\ UNCHANGED <<used_cnt, pages, rw_locks>>
                 ELSE /\ loc'[t].ret = p
                      /\ p \in Held(t)']_vars

\* C16: new_page(special_data) returns the next unused page number with the exclusive
\* latch of that page held by the caller; the page has no items, an all-zero item
\* area, special_size = the size of the special type and special_data in its special
\* area
C16_NewPageInitialised ==
    [][\A t \in FetcherThreads :
          (new_page(t, NextSpecialData) /\ used_cnt < NumPages) =>
              /\ loc'[t].status = "returned"
              /\ loc'[t].ret = used_cnt
              /\ used_cnt' = used_cnt + 1
              /\ rw_locks'[used_cnt].writer = t
              /\ rw_locks'[used_cnt].readers = {}
              /\ item_cnt(pages'[used_cnt]) = 0
              /\ pages'[used_cnt].header.item_lower =
                     page_data_size - Len(NextSpecialData)
              /\ \A i \in DOMAIN item_area(pages'[used_cnt], page_data_size) :
                     item_area(pages'[used_cnt], page_data_size)[i] = 0
              /\ pages'[used_cnt].header.special_size = Len(NextSpecialData)
              /\ special_data(pages'[used_cnt], page_data_size) = NextSpecialData]_vars

C16_Witness ==
    \E t \in FetcherThreads :
        /\ loc[t].op = "new_page" /\ loc[t].status = "returned" /\ loc[t].ret = 2
        /\ rw_locks[2].writer = t
        /\ special_data(pages[2], page_data_size) = TestSpecialData
        /\ special_data(pages[1], page_data_size) = LeafSpecialData

(***************************************************************************)
(* PageSpec: one Page alone (page.rs), set up as the page.rs tests do and  *)
(* then driven by add_item_v2, update_item_v2 and zero_out_item_data.  The *)
(* page is pages[0]; unit holds the build, the item last written to each   *)
(* index and the outcome of the last call.  A panic ends the run.          *)
(***************************************************************************)
align_offset(len, align) == align_offset_down(len + (align - 1), align)

\* the items the callers store: size, alignment and the bytes Item::write produces
ItemKinds == {[size |-> 8, align |-> 4], [size |-> 16, align |-> 8]}
ItemTags == 1 .. NumItemTags
ItemBytes(kind, tag) == [k \in 1 .. kind.size |-> 16 * tag + k]

\* ItemPointer {offset: u16, size: u16} as the four bytes of its slot
ItemPointerBytes(offset, size) ==
    <<offset % 256, offset \div 256, size % 256, size \div 256>>
ItemPointerAt(page, data_idx) ==
    [offset |-> page.data[data_idx] + 256 * page.data[data_idx + 1],
     size   |-> page.data[data_idx + 2] + 256 * page.data[data_idx + 3]]

\* page.rs:408 when item.size() > item_lower, in a build without overflow checks:
\* the usize difference wraps, is aligned down and cut to the width of item_lower
wrapped_item_lower(item_lower, size, align) ==
    2 ^ CursorBits - align_offset(size - item_lower, align)

\* PageHeader::add_item_v2 (page.rs:404-418): "ok" with the committed header, "full"
\* (the Err), or "panic" where the subtraction overflows in a build that checks it
PageHeader_add_item_v2(header, size, align, build) ==
    LET new_item_upper == header.item_upper + ITEM_POINTER_SIZE
        underflows == header.item_lower < size
        new_item_lower == IF underflows
                          THEN wrapped_item_lower(header.item_lower, size, align)
                          ELSE align_offset_down(header.item_lower - size, align)
    IN  IF underflows /\ build = "debug"
        THEN [res |-> "panic", header |-> header]
        ELSE IF new_item_upper > new_item_lower
        THEN [res |-> "full", header |-> header]
        ELSE [res |-> "ok",
              header |-> [header EXCEPT !.item_upper = new_item_upper,
                                        !.item_lower = new_item_lower]]

\* Page::add_item_v2 (page.rs:103-121); indexing data[data_offset] past the array panics
Page_add_item_committed(page, bytes, h, pds) ==
    IF h.res # "ok"
    THEN [res |-> h.res, page |-> page]
    ELSE IF h.header.item_lower >= pds
    THEN [res |-> "panic", page |-> [page EXCEPT !.header = h.header]]
    ELSE [res |-> "ok",
          page |-> [header |-> h.header,
                    data |-> write_bytes(
                                 write_bytes(page.data, h.header.item_lower, bytes),
                                 page.header.item_upper,
                                 ItemPointerBytes(h.header.item_lower, Len(bytes)))]]
Page_add_item_v2(page, bytes, align, build, pds) ==
    Page_add_item_committed(page, bytes,
        PageHeader_add_item_v2(page.header, Len(bytes), align, build), pds)

\* Page::get_item_v2 (page.rs:123-140): the bytes I::read is handed
Page_get_item_v2(page, idx) ==
    read_bytes(page.data, ItemPointerAt(page, idx * ITEM_POINTER_SIZE).offset,
               ItemPointerAt(page, idx * ITEM_POINTER_SIZE).size)

\* Page::update_item_v2 (page.rs:142-160): both assertions, then the overwrite
update_item_ok(page, idx, bytes) ==
    /\ idx * ITEM_POINTER_SIZE < page.header.item_upper
    /\ ItemPointerAt(page, idx * ITEM_POINTER_SIZE).size = Len(bytes)
\* mutation of Page_update_item_v2: the overwrite lands on the item of slot 0
Page_update_item_first(page, idx, bytes) ==
    [page EXCEPT !.data = write_bytes(@, ItemPointerAt(page, 0).offset, bytes)]
Page_update_item_v2(page, idx, bytes) ==
    [page EXCEPT !.data =
        write_bytes(@, ItemPointerAt(page, idx * ITEM_POINTER_SIZE).offset, bytes)]

\* Page::zero_out_item_data (page.rs:78-84): the bytes zeroed, then the header reset
zero_out_all(page, pds) == pds
zero_out_end(page, pds) == pds - page.header.special_size
Page_zero_out_item_data(page, pds) ==
    [header |-> PageHeaderNew(page.header.special_size, pds),
     data   |-> [i \in DOMAIN page.data |->
                    IF i < zero_out_end(page, pds) THEN 0 ELSE page.data[i]]]

\* PageItemIteratorV2::next (page.rs:316-324) called until it returns None
RECURSIVE items_iter_from(_, _)
items_iter_from(page, forward) ==
    IF forward < item_cnt(page)
    THEN <<Page_get_item_v2(page, forward)>> \o items_iter_from(page, forward + 1)
    ELSE <<>>
\* Page::items_iter_v2 (page.rs:66-68), collected
items_iter_v2(page) == items_iter_from(page, 0)

NoPageCall == [op |-> "none", res |-> "none", idx |-> 0, bytes |-> <<>>, align |-> 1]

\* page.rs tests::setup_page
PageInit ==
    /\ scenario = "page"
    /\ script = <<>>
    /\ page_data_size = UnitPageDataSize
    /\ used_cnt = 1
    /\ \E special \in {LeafSpecialData, TestSpecialData} :
          pages = [p \in {0} |->
                      special_data_mut(Page_new(Len(special), UnitPageDataSize),
                                       special, UnitPageDataSize)]
    /\ rw_locks = [p \in {0} |-> FreeLock]
    /\ pc = [t \in Threads |-> "off"]
    /\ loc = [t \in Threads |-> NoCall]
    /\ ins_log = <<>>
    /\ \E build \in {"debug", "release"} :
          unit = [build |-> build, written |-> <<>>, last |-> NoPageCall]

PageLive == scenario = "page" /\ unit.last.res # "panic"

PageStep(page, written, last) ==
    /\ pages' = [pages EXCEPT ![0] = page]
    /\ unit' = [unit EXCEPT !.written = written, !.last = last]
    /\ UNCHANGED <<scenario, script, page_data_size, used_cnt, rw_locks, pc, loc, ins_log>>

AddItemDone(bytes, align, added) ==
    PageStep(added.page,
             IF added.res = "ok" THEN Append(unit.written, bytes) ELSE unit.written,
             [NoPageCall EXCEPT !.op = "add_item_v2", !.res = added.res,
                                !.bytes = bytes, !.align = align])

AddItem(kind, tag) ==
    /\ PageLive
    /\ AddItemDone(ItemBytes(kind, tag), kind.align,
                   Page_add_item_v2(pages[0], ItemBytes(kind, tag), kind.align,
                                    unit.build, page_data_size))

UpdateItem(idx, kind, tag) ==
    /\ PageLive
    /\ IF update_item_ok(pages[0], idx, ItemBytes(kind, tag))
       THEN PageStep(Page_update_item_v2(pages[0], idx, ItemBytes(kind, tag)),
                     [unit.written EXCEPT ![idx + 1] = ItemBytes(kind, tag)],
                     [NoPageCall EXCEPT !.op = "update_item_v2", !.res = "ok", !.idx = idx,
                                        !.bytes = ItemBytes(kind, tag)])
       ELSE PageStep(pages[0], unit.written,
                     [NoPageCall EXCEPT !.op = "update_item_v2", !.res = "panic",
                                        !.idx = idx, !.bytes = ItemBytes(kind, tag)])

ZeroOut ==
    /\ PageLive
    /\ PageStep(Page_zero_out_item_data(pages[0], page_data_size), <<>>,
                [NoPageCall EXCEPT !.op = "zero_out_item_data", !.res = "ok",
                                   !.idx = item_cnt(pages[0])])

\* PageItemIteratorV2::new (page.rs:300-307)
PageItemIteratorV2_new == [forward |-> 0, back |-> 0]

\* Iterator::next (page.rs:316-324): the slot whose item is yielded (None at the
\* end) and the iterator after the call
PageItemIteratorV2_next(page, it) ==
    IF it.forward < item_cnt(page)
    THEN [slot |-> it.forward, it |-> [it EXCEPT !.forward = @ + 1]]
    ELSE [slot |-> None, it |-> it]

\* DoubleEndedIterator::next_back (page.rs:331-339)
PageItemIteratorV2_next_back(page, it) ==
    IF it.back < item_cnt(page)
    THEN [slot |-> it.back, it |-> [it EXCEPT !.back = @ + 1]]
    ELSE [slot |-> None, it |-> it]

IterCall(page, it, call) ==
    IF call = "next" THEN PageItemIteratorV2_next(page, it)
    ELSE PageItemIteratorV2_next_back(page, it)

\* what a sequence of next / next_back calls on one iterator yields, call by call
RECURSIVE IterYields(_, _, _)
IterYields(page, it, calls) ==
    IF calls = <<>> THEN <<>>
    ELSE <<[slot |-> IterCall(page, it, Head(calls)).slot,
            item |-> IF IterCall(page, it, Head(calls)).slot = None THEN <<>>
                     ELSE Page_get_item_v2(page, IterCall(page, it, Head(calls)).slot)]>>
         \o IterYields(page, IterCall(page, it, Head(calls)).it, Tail(calls))

\* page.items_iter_v2() driven by item_cnt + 1 calls, each next or next_back; the
\* page is borrowed for as long as the iterator lives
ItemsIter ==
    /\ PageLive
    /\ \E calls \in [1 .. (item_cnt(pages[0]) + 1) -> {"next", "next_back"}] :
          PageStep(pages[0], unit.written,
                   [op |-> "items_iter_v2", res |-> "ok", idx |-> item_cnt(pages[0]),
                    bytes |-> <<>>, align |-> 1, calls |-> calls,
                    yields |-> IterYields(pages[0], PageItemIteratorV2_new, calls)])

PageNext ==
    \/ \E kind \in ItemKinds, tag \in ItemTags : AddItem(kind, tag)
    \/ ItemsIter
    \/ \E idx \in 0 .. MaxUpdateIdx, kind \in ItemKinds, tag \in ItemTags :
          UpdateItem(idx, kind, tag)
    \/ ZeroOut

PageSpec == PageInit /\ [][PageNext]_vars

(***************************************************************************)
(* Properties of PageSpec.                                                 *)
(***************************************************************************)
\* the condition under which the claim has add_item return PageFull
PageFullCase(header, size, align) ==
    \/ size > header.item_lower
    \/ header.item_upper + ITEM_POINTER_SIZE >
           align_offset_down(header.item_lower - size, align)

\* C17: add_item returns the PageFull error exactly when upper + slot_size >
\* align_down(lower - item.size(), item.align()), also when item.size() is larger than
\* lower, and then leaves the whole page (cursors, slot directory, payload arena,
\* special area) unchanged; otherwise it succeeds and item_count grows by exactly 1
C17_AddItemPageFull ==
    [][\A kind \in ItemKinds, tag \in ItemTags :
          AddItem(kind, tag) =>
              IF PageFullCase(pages[0].header, kind.size, kind.align)
              THEN unit'.last.res = "full" /\ pages'[0] = pages[0]
              ELSE /\ unit'.last.res = "ok"
                   /\ item_cnt(pages'[0]) = item_cnt(pages[0]) + 1]_vars

\* C18: on a page built by n successful add_item calls and any number of equal-size
\* update_item calls, items_iter yields exactly n items in slot order, get_item(i) is
\* the i-th item yielded, and slot i holds the item most recently written to index i
C18_IterAndGetAgree ==
    PageLive =>
        /\ Len(items_iter_v2(pages[0])) = Len(unit.written)
        /\ \A i \in 0 .. Len(unit.written) - 1 :
              /\ Page_get_item_v2(pages[0], i) = items_iter_v2(pages[0])[i + 1]
              /\ Page_get_item_v2(pages[0], i) = unit.written[i + 1]

C18_Witness ==
    /\ PageLive
    /\ Len(unit.written) = 3
    /\ unit.last.op = "update_item_v2" /\ unit.last.res = "ok" /\ unit.last.idx = 1
    /\ unit.written[2] # unit.written[1] /\ unit.written[2] # unit.written[3]

\* C19: after zero_out_item_data the page has item_count 0 and the cursors of a fresh
\* page of the same special_size, and special_size and every byte of the special area
\* are as before
C19_ZeroOutKeepsSpecial ==
    [][ZeroOut =>
          /\ item_cnt(pages'[0]) = 0
          /\ pages'[0].header = PageHeaderNew(pages[0].header.special_size, page_data_size)
          /\ pages'[0].header = Page_new(pages[0].header.special_size, page_data_size).header
          /\ pages'[0].header.special_size = pages[0].header.special_size
          /\ special_data(pages'[0], page_data_size) = special_data(pages[0], page_data_size)
      ]_vars

C19_Witness ==
    /\ scenario = "page"
    /\ unit.last.op = "zero_out_item_data" /\ unit.last.idx = 3
    /\ item_cnt(pages[0]) = 0
    /\ special_data(pages[0], page_data_size) = TestSpecialData

(***************************************************************************)
(* ItemSpec: Item::write and Item::read of every storable type of the      *)
(* repository (btree/key.rs, btree/value.rs, btree/leaf_node.rs,           *)
(* btree/internal_node.rs) on the 18-byte buffer of the leaf_node tests.   *)
(* An item is a record [type, key, page_no, offset]; page_no and offset    *)
(* are the ValueTupleId of a leaf item, page_no alone the child of a       *)
(* downlink.  Integers are laid out little-endian.  A struct copy leaves   *)
(* the padding bytes of the target unspecified: unit.pad says whether they *)
(* are kept (None) or take a byte of the source's padding.                 *)
(***************************************************************************)
le_bytes(v, n) == [k \in 1 .. n |-> (v \div (256 ^ (k - 1))) % 256]
RECURSIVE from_le(_, _, _)
from_le(data, offset, n) ==
    IF n = 0 THEN 0 ELSE data[offset] + 256 * from_le(data, offset + 1, n - 1)

AnItem(type, key, page_no, offset) ==
    [type |-> type, key |-> key, page_no |-> page_no, offset |-> offset]
IsDynamic(type) == type \in {"KeyDynamic", "LeafDynamic", "InternalDynamic"}
KeySize(type) == IF IsDynamic(type) THEN 1 ELSE KeyU32Size

\* Item::size of each type
item_size(item) ==
    CASE item.type = "KeyU32" -> KeyU32Size
      [] item.type = "KeyDynamic" -> 1
      [] item.type = "ValueTupleId" -> ValueTupleIdSize
      [] item.type = "LeafFixed" -> LeafNodeItemDataSize
      [] item.type = "LeafDynamic" ->
             align_offset(align_offset(KeySize(item.type), ItemAlign) + ValueTupleIdSize, 2)
                 + 3 * 2
      [] item.type = "InternalFixed" -> InternalNodeItemDataSize
      [] item.type = "InternalDynamic" ->
             align_offset(align_offset(KeySize(item.type), 4) + 4, 2) + 2 * 2

\* ValueTupleId {page_no: u32, offset: u16} and its two bytes of padding
value_bytes(item, buffer, at, pad) ==
    le_bytes(item.page_no, 4) \o le_bytes(item.offset, 2)
        \o <<IF pad = None THEN buffer[at + 6] ELSE pad,
             IF pad = None THEN buffer[at + 7] ELSE pad>>

\* Item::write of each type: the buffer afterwards
item_write(item, buffer, pad) ==
    CASE item.type = "KeyU32" -> write_bytes(buffer, 0, le_bytes(item.key, 4))
      [] item.type = "KeyDynamic" -> write_bytes(buffer, 0, <<item.key>>)
      [] item.type = "ValueTupleId" -> write_bytes(buffer, 0, value_bytes(item, buffer, 0, pad))
      [] item.type = "LeafFixed" ->
             write_bytes(write_bytes(buffer, 0, le_bytes(item.key, 4)),
                         4, value_bytes(item, buffer, 4, pad))
      [] item.type = "LeafDynamic" ->
             \* leaf_node.rs:73-90: key, value at value_offset, the three u16 behind
             write_bytes(
                 write_bytes(write_bytes(buffer, 0, <<item.key>>),
                             align_offset(1, ItemAlign),
                             value_bytes(item, buffer, align_offset(1, ItemAlign), pad)),
                 align_offset(align_offset(1, ItemAlign) + ValueTupleIdSize, 2),
                 le_bytes(1, 2) \o le_bytes(ValueTupleIdSize, 2)
                     \o le_bytes(align_offset(1, ItemAlign), 2))
      [] item.type = "InternalFixed" ->
             write_bytes(write_bytes(buffer, 0, le_bytes(item.key, 4)),
                         4, le_bytes(item.page_no, 4))
      [] item.type = "InternalDynamic" ->
             \* internal_node.rs:73-89: key, then page_no through buffer itself (line 80),
             \* then the two u16 at size_offset
             write_bytes(
                 write_bytes(write_bytes(buffer, 0, <<item.key>>),
                             0, le_bytes(item.page_no, 4)),
                 align_offset(align_offset(1, 4) + 4, 2),
                 le_bytes(1, 2) \o le_bytes(align_offset(1, 4), 2))

\* Key::read / Value::read: the size assertions of the fixed types
key_read_ok(type, size) == IsDynamic(type) \/ size = KeyU32Size
value_read_ok(size) == size = ValueTupleIdSize

\* a u32 read through a pointer cast: a misaligned address panics in a build with
\* debug assertions and is loaded as it lies in one without
u32_read_ok(offset, build) == offset % 4 = 0 \/ build = "release"

Panicked == AnItem("panic", 0, 0, 0)

\* Item::read of each type (internal_node.rs:97 finds its two u16 at size - 3 * 2)
item_read_internal(type, buffer, size, build) ==
    IF u32_read_ok(from_le(buffer, size - 3 * 2 + 2, 2), build)
    THEN AnItem(type, buffer[0],
                from_le(buffer, from_le(buffer, size - 3 * 2 + 2, 2), 4), 0)
    ELSE Panicked
item_read_leaf(type, buffer, size) ==
    IF value_read_ok(from_le(buffer, size - 3 * 2 + 2, 2))
    THEN AnItem(type, buffer[0],
                from_le(buffer, from_le(buffer, size - 3 * 2 + 4, 2), 4),
                from_le(buffer, from_le(buffer, size - 3 * 2 + 4, 2) + 4, 2))
    ELSE Panicked
item_read(type, buffer, size, build) ==
    CASE type = "KeyU32" ->
             IF key_read_ok(type, size) THEN AnItem(type, from_le(buffer, 0, 4), 0, 0)
             ELSE Panicked
      [] type = "KeyDynamic" -> AnItem(type, buffer[0], 0, 0)
      [] type = "ValueTupleId" ->
             IF value_read_ok(size)
             THEN AnItem(type, 0, from_le(buffer, 0, 4), from_le(buffer, 4, 2))
             ELSE Panicked
      [] type = "LeafFixed" ->
             AnItem(type, from_le(buffer, 0, 4), from_le(buffer, 4, 4), from_le(buffer, 8, 2))
      [] type = "LeafDynamic" -> item_read_leaf(type, buffer, size)
      [] type = "InternalFixed" ->
             AnItem(type, from_le(buffer, 0, 4), from_le(buffer, 4, 4), 0)
      [] type = "InternalDynamic" -> item_read_internal(type, buffer, size, build)

\* the values the callers serialize
U8Samples == {34, 255}
U16Samples == {22, 258}
U32Samples == {34, 2147417596}
BufferFills == {0, 85}
Items ==
    {AnItem("KeyU32", k, 0, 0) : k \in U32Samples}
        \cup {AnItem("KeyDynamic", k, 0, 0) : k \in U8Samples}
        \cup {AnItem("ValueTupleId", 0, p, o) : p \in U32Samples, o \in U16Samples}
        \cup {AnItem("LeafFixed", k, p, o) :
                 k \in U32Samples, p \in U32Samples, o \in U16Samples}
        \cup {AnItem("LeafDynamic", k, p, o) :
                 k \in U8Samples, p \in U32Samples, o \in U16Samples}
        \cup {AnItem("InternalFixed", k, p, 0) : k \in U32Samples, p \in U32Samples}
        \cup {AnItem("InternalDynamic", k, p, 0) : k \in U8Samples, p \in U32Samples}

ItemInit ==
    /\ scenario = "item"
    /\ script = <<>>
    /\ page_data_size = AlignedBufferSize
    /\ used_cnt = 0
    /\ pages = <<>>
    /\ rw_locks = <<>>
    /\ pc = [t \in Threads |-> "off"]
    /\ loc = [t \in Threads |-> NoCall]
    /\ ins_log = <<>>
    /\ \E item \in Items, fill \in BufferFills, pad \in {None} \cup BufferFills,
          build \in {"debug", "release"} :
          unit = [build |-> build, pad |-> pad, item |-> item, phase |-> "new",
                  buffer |-> [i \in 0 .. AlignedBufferSize - 1 |-> fill],
                  size |-> 0, result |-> AnItem("none", 0, 0, 0)]

\* leaf_data.write(&mut buffer.0[0]) as in leaf_node.rs:402-404, 433-435
WriteItem ==
    /\ scenario = "item" /\ unit.phase = "new"
    /\ unit' = [unit EXCEPT !.phase = "written",
                            !.buffer = item_write(unit.item, unit.buffer, unit.pad),
                            !.size = item_size(unit.item)]
    /\ UNCHANGED <<scenario, script, page_data_size, used_cnt, pages, rw_locks, pc, loc,
                   ins_log>>

\* I::read(&buffer.0[0], size) as in leaf_node.rs:405-407, 458-463
ReadItem ==
    /\ scenario = "item" /\ unit.phase = "written"
    /\ unit' = [unit EXCEPT !.phase = "read",
                            !.result = item_read(unit.item.type, unit.buffer, unit.size,
                                                 unit.build)]
    /\ UNCHANGED <<scenario, script, page_data_size, used_cnt, pages, rw_locks, pc, loc,
                   ins_log>>

ItemNext == WriteItem \/ ReadItem

ItemSpec == ItemInit /\ [][ItemNext]_vars

(***************************************************************************)
(* Properties of ItemSpec.                                                 *)
(***************************************************************************)
\* C20: for every item of every storable type (key, value, leaf item, internal
\* downlink), fixed and dynamic, read(write(I), I.size()) = I; and a dynamic leaf item
\* with a 1-byte key and a ValueTupleId value is written in 18 bytes, the last six of
\* which are (key_size, value_size, value_offset)
C20_SerializationRoundTrip ==
    /\ unit.phase = "read" => unit.result = unit.item
    /\ (unit.phase # "new" /\ unit.item.type = "LeafDynamic") =>
           /\ unit.size = 18
           /\ read_bytes(unit.buffer, unit.size - 6, 6) =
                  le_bytes(1, 2) \o le_bytes(ValueTupleIdSize, 2) \o le_bytes(4, 2)

(***************************************************************************)
(* NodeSpec: one internal node and update_child_ptr.  Thread 1 holds the   *)
(* node (page 1, made by internal_node::new_page with separator MAX_KEY)   *)
(* behind its InternalNodeWriteLock and calls add_item, find_child_ptr and *)
(* update_child_ptr on it; a split gives it siblings on the next pages.    *)
(* unit.last is the outcome of the last call; for update_child_ptr it also *)
(* holds the pair the loop of insert would carry up (insert.rs:251-260).   *)
(***************************************************************************)
ParentNodeNo == 1
NodeKeys == {3, 6, MAX_KEY}
NodeChildren == {11, 12}
FindKeys == {0, 3, 5, 6, MAX_KEY - 1, MAX_KEY}

NoNodeCall == [op |-> "none", res |-> "none"]

NodeInit ==
    /\ scenario = "node"
    /\ script = <<>>
    /\ page_data_size = NodePageDataSize
    /\ used_cnt = 2
    /\ \E node_type \in {"Internal", "Leaf"} :
           pages = [p \in {0, ParentNodeNo} |->
                       IF p = 0 THEN FreshPage("Metadata", 0, NodePageDataSize)
                       ELSE set_separator(FreshPage(node_type, 0, NodePageDataSize),
                                IF node_type = "Leaf" THEN LeafSeparator ELSE MAX_KEY)]
    /\ rw_locks = [p \in {0, ParentNodeNo} |->
                      IF p = 0 THEN FreeLock ELSE [FreeLock EXCEPT !.writer = 1]]
    /\ pc = [t \in Threads |-> IF t = 1 THEN "idle" ELSE "off"]
    /\ loc = [t \in Threads |-> NoCall]
    /\ ins_log = <<>>
    /\ unit = [calls |-> 0, last |-> NoNodeCall]

\* the entries of the node that qualify for key in find_child_ptr
ChildAbove(node, key) == {i \in DOMAIN item_iter(node) : key < item_iter(node)[i].key}

\* internal_node.rs:148-163: the entry of least key among those with
\* key < entry.key < max_key (the first such in slot order), or None; an entry
\* whose page number is 0 also reads as None
find_child_ptr(node, key) ==
    LET cand == {i \in ChildAbove(node, key) : item_iter(node)[i].key < MAX_KEY}
        best == {i \in cand : \A j \in cand :
                    \/ item_iter(node)[i].key < item_iter(node)[j].key
                    \/ (item_iter(node)[i].key = item_iter(node)[j].key /\ i <= j)}
    IN  IF cand = {} THEN None
        ELSE IF item_iter(node)[CHOOSE i \in best : TRUE].val = 0 THEN None
        ELSE item_iter(node)[CHOOSE i \in best : TRUE].val

\* the first entry of the node that points to page_no (0 when there is none)
EntryOf(node, page_no) ==
    IF \E i \in DOMAIN item_iter(node) : item_iter(node)[i].val = page_no
    THEN CHOOSE i \in DOMAIN item_iter(node) :
            /\ item_iter(node)[i].val = page_no
            /\ \A j \in 1 .. (i - 1) : item_iter(node)[j].val # page_no
    ELSE 0

MaxKeyOf(node) ==
    CHOOSE k \in {item_iter(node)[i].key : i \in DOMAIN item_iter(node)} :
        \A i \in DOMAIN item_iter(node) : item_iter(node)[i].key <= k

\* mutation of update_item_separator: the separator stays
update_item_separator_kept(node, cur_key) == node

\* internal_node.rs:249-257: the separator follows the greatest key when the
\* replaced entry carried it
update_item_separator(node, cur_key) ==
    IF separator(node) = cur_key
    THEN update_item_v2(node, 0, KeyItem(MaxKeyOf(node)))
    ELSE node

\* internal_node.rs:234-260: InternalNodeWriteLock::update_item; ok = FALSE is the
\* unwrap of a missing entry
update_item(node, item) ==
    IF EntryOf(node, item.val) = 0
    THEN [ok |-> FALSE, page |-> node]
    ELSE IF item_iter(node)[EntryOf(node, item.val)] = item
    THEN [ok |-> TRUE, page |-> node]
    ELSE [ok |-> TRUE,
          page |-> update_item_separator(
                       update_item_v2(node, EntryOf(node, item.val), item),
                       item_iter(node)[EntryOf(node, item.val)].key)]

\* what update_child_ptr leaves: err is the result of parent.add_item(new), split
\* tells Some from None, panicked an unwrap that failed on the way, sibling
\* is the page of the new sibling when one was allocated
ChildPtrOutcome(err, split, panicked, parent, sibling) ==
    [err |-> err, split |-> split, panicked |-> panicked,
     parent |-> parent, sibling |-> sibling]

\* mutation of split_place: the new downlink always goes to the parent
split_place_parent(sp, new, err) ==
    ChildPtrOutcome(err, TRUE, internal_add_item(sp.orig, new).res # "ok",
                    internal_add_item(sp.orig, new).page, <<sp.new>>)

\* insert.rs:341-347: the new downlink goes to the parent when its key is below
\* the parent's new separator, to the new sibling otherwise; both are unwrapped
split_place(sp, new, err) ==
    IF ~sp.ok
    THEN ChildPtrOutcome(err, TRUE, TRUE, sp.orig, <<sp.new>>)
    ELSE IF new.key < separator(sp.orig)
    THEN ChildPtrOutcome(err, TRUE, internal_add_item(sp.orig, new).res # "ok",
                         internal_add_item(sp.orig, new).page, <<sp.new>>)
    ELSE ChildPtrOutcome(err, TRUE, internal_add_item(sp.new, new).res # "ok",
                         sp.orig, <<internal_add_item(sp.new, new).page>>)

\* mutation of add_failed: only a full page is answered by a split
add_failed_full(added) == added.res = "full"

\* insert.rs:325-327: match parent.add_item(new) { Ok(()) => .., Err(_err) => .. }
add_failed(added) == added.res # "ok"

\* insert.rs:323-348 after update_item: add the new downlink or split the parent
child_ptr_add(parent, added, new, pds) ==
    IF added.res = "underflow"
    THEN ChildPtrOutcome(added.res, FALSE, TRUE, parent, <<>>)
    ELSE IF ~add_failed(added)
    THEN ChildPtrOutcome(added.res, FALSE, added.res # "ok", added.page, <<>>)
    ELSE IF used_cnt = NumPages
    THEN ChildPtrOutcome(added.res, FALSE, TRUE, parent, <<>>)
    ELSE split_place(
             split_node_data_v2(parent,
                 FreshPage("Internal", parent.special.right_sibling_page_no, pds),
                 InternalNodeItemDataSize, pds),
             new, added.res)

\* insert.rs:313-349: update_child_ptr(page_fetcher, parent, orig, new)
update_child_ptr(parent, orig, new, pds) ==
    IF ~update_item(parent, orig).ok
    THEN ChildPtrOutcome("none", FALSE, TRUE, parent, <<>>)
    ELSE child_ptr_add(update_item(parent, orig).page,
                       internal_add_item(update_item(parent, orig).page, new), new, pds)

\* insert.rs:251-260: the pair insert carries to the next level after Some(_)
propagated(parent, parent_node_no) ==
    [orig_child |-> [key |-> separator(parent), val |-> parent_node_no],
     new_child  |-> [key |-> separator(parent), val |-> parent_node_no]]

NodeLive == scenario = "node" /\ pc[1] = "idle" /\ unit.calls < MaxNodeCalls

NodeStep(parent, last, next) ==
    /\ unit' = [calls |-> unit.calls + 1, last |-> last]
    /\ pc' = [pc EXCEPT ![1] = next]
    /\ UNCHANGED <<scenario, script, page_data_size, loc, ins_log>>

\* add_item of the adapter that fits the node's type
node_add_item(node, item) ==
    IF node.special.node_type = "Leaf"
    THEN leaf_add_item(node, item)
    ELSE internal_add_item(node, item)

\* LeafNodeWriteLock::add_item(LeafNodeItemData {key, value}) on a leaf,
\* InternalNodeWriteLock::add_item(InternalNodeItemData {key, page_no}) otherwise
NodeAddItem(key, page_no) ==
    /\ NodeLive
    /\ LET added == node_add_item(pages[ParentNodeNo], [key |-> key, val |-> page_no])
       IN  /\ pages' = [pages EXCEPT ![ParentNodeNo] = added.page]
           /\ NodeStep(added.page,
                       [op |-> "add_item", res |-> added.res, key |-> key,
                        page_no |-> page_no],
                       IF added.res = "underflow" THEN "panicked" ELSE "idle")
    /\ UNCHANGED <<used_cnt, rw_locks>>

\* InternalNodeRead::find_child_ptr(key)
NodeFindChildPtr(key) ==
    /\ NodeLive
    /\ pages[ParentNodeNo].special.node_type = "Internal"
    /\ NodeStep(pages[ParentNodeNo],
                [op |-> "find_child_ptr", res |-> "ok", key |-> key,
                 ret |-> find_child_ptr(pages[ParentNodeNo], key)],
                "idle")
    /\ UNCHANGED <<used_cnt, pages, rw_locks>>

\* InternalNodeWriteLock::update_item(&InternalNodeItemData {key, page_no})
NodeUpdateItem(key, page_no) ==
    /\ NodeLive
    /\ pages[ParentNodeNo].special.node_type = "Internal"
    /\ LET updated == update_item(pages[ParentNodeNo], [key |-> key, val |-> page_no])
       IN  /\ pages' = [pages EXCEPT ![ParentNodeNo] = updated.page]
           /\ NodeStep(updated.page,
                       [op |-> "update_item",
                        res |-> IF updated.ok THEN "ok" ELSE "panic",
                        key |-> key, page_no |-> page_no],
                       IF updated.ok THEN "idle" ELSE "panicked")
    /\ UNCHANGED <<used_cnt, rw_locks>>

\* the pages and latches after update_child_ptr: a split has allocated the next page
NodeAfter(out) ==
    IF out.sibling = <<>>
    THEN /\ pages' = [pages EXCEPT ![ParentNodeNo] = out.parent]
         /\ UNCHANGED <<used_cnt, rw_locks>>
    ELSE /\ pages' = [new_page_pages(out.sibling[1]) EXCEPT ![ParentNodeNo] = out.parent]
         /\ used_cnt' = used_cnt + 1
         /\ rw_locks' = [new_page_locks(rw_locks, 1) EXCEPT ![used_cnt] = FreeLock]

\* update_child_ptr for a child of the node that has split: orig carries the
\* child's new separator, new the child's old separator and its new sibling
NodeUpdateChildPtr(i, key, page_no) ==
    /\ NodeLive
    /\ pages[ParentNodeNo].special.node_type = "Internal"
    /\ i \in DOMAIN item_iter(pages[ParentNodeNo])
    /\ key <= item_iter(pages[ParentNodeNo])[i].key
    /\ LET orig == [key |-> key, val |-> item_iter(pages[ParentNodeNo])[i].val]
           new == [key |-> item_iter(pages[ParentNodeNo])[i].key, val |-> page_no]
           out == update_child_ptr(pages[ParentNodeNo], orig, new, page_data_size)
       IN  /\ NodeAfter(out)
           /\ NodeStep(out.parent,
                       [op |-> "update_child_ptr", res |-> out.err, orig |-> orig,
                        new |-> new, split |-> out.split, panicked |-> out.panicked,
                        new_sibling_no |-> IF out.sibling = <<>> THEN None ELSE used_cnt,
                        up |-> IF out.split /\ ~out.panicked
                               THEN propagated(out.parent, ParentNodeNo)
                               ELSE <<>>],
                       IF out.panicked THEN "panicked" ELSE "idle")

NodeNext ==
    \/ \E key \in NodeKeys, page_no \in NodeChildren : NodeAddItem(key, page_no)
    \/ \E key \in FindKeys : NodeFindChildPtr(key)
    \/ \E key \in NodeKeys, page_no \in NodeChildren : NodeUpdateItem(key, page_no)
    \/ \E i \in 1 .. 4, key \in NodeKeys, page_no \in NodeChildren :
           NodeUpdateChildPtr(i, key, page_no)

NodeSpec == NodeInit /\ [][NodeNext]_vars

(***************************************************************************)
(* Properties of NodeSpec.                                                 *)
(***************************************************************************)
\* C30: find_child_ptr(key) returns the page number of the downlink with the least
\* downlink key strictly greater than key, and None exactly when no downlink key is
\* strictly greater; so also when the only such downlink has key MAX_KEY
C30_FindChildPtr ==
    (scenario = "node" /\ unit.last.op = "find_child_ptr") =>
        LET node == pages[ParentNodeNo]
            above == ChildAbove(node, unit.last.key)
        IN  /\ unit.last.ret = None <=> above = {}
            /\ above # {} =>
                   \E i \in above :
                       /\ unit.last.ret = item_iter(node)[i].val
                       /\ \A j \in above : item_iter(node)[i].key <= item_iter(node)[j].key

\* C21: PageFull is the only add_item error answered by a split.  When the add_item
\* of update_child_ptr fails because the downlink's key exceeds the node's
\* separator, no sibling page is allocated and the node is not split
C21_OnlyPageFullSplits ==
    (scenario = "node" /\ unit.last.op = "update_child_ptr" /\ unit.last.res = "range") =>
        /\ ~unit.last.split
        /\ unit.last.new_sibling_no = None

\* C27: internal split propagation.  When update_child_ptr could not add the new
\* downlink to P and has split P into P and P', the new downlink is on the one of
\* the two that covers its key (P up to its separator, P' above it), and the pair
\* carried to the next level is (separator of P, page of P) and (separator of P',
\* page of P')
C27_InternalSplitPropagation ==
    (/\ scenario = "node"
     /\ unit.last.op = "update_child_ptr"
     /\ unit.last.split
     /\ ~unit.last.panicked) =>
        LET P == pages[ParentNodeNo]
            Q == pages[unit.last.new_sibling_no]
            on(node) == \E i \in DOMAIN item_iter(node) : item_iter(node)[i] = unit.last.new
        IN  /\ unit.last.new.key <= separator(P) => on(P)
            /\ unit.last.new.key > separator(P) => on(Q)
            /\ unit.last.up.orig_child = [key |-> separator(P), val |-> ParentNodeNo]
            /\ unit.last.up.new_child =
                   [key |-> separator(Q), val |-> unit.last.new_sibling_no]

(***************************************************************************)
(* add_item of the node adapters (leaf_node.rs:264-277,                    *)
(* internal_node.rs:224-232)                                               *)
(***************************************************************************)
AddItemStep == unit'.calls = unit.calls + 1 /\ unit'.last.op = "add_item"

NodeItemSize(node) ==
    IF node.special.node_type = "Leaf" THEN LeafNodeItemDataSize
    ELSE InternalNodeItemDataSize

\* the free bytes between the slot directory and the item data take one more
\* slot and one more item
SpaceFor(node) ==
    node.header.item_lower - node.header.item_upper
        >= ITEM_POINTER_SIZE + NodeItemSize(node)

\* C32: add_item of a leaf and of an internal node answers every item whose key is
\* strictly greater than the separator with an error and leaves the node as it
\* was; an item whose key is at most the separator, the separator itself
\* included, is not refused for its key and, where the page has the room, is
\* appended as the last slot
C32_AddItemRange ==
    [][AddItemStep =>
          /\ unit'.last.key > separator(pages[ParentNodeNo]) =>
                 /\ unit'.last.res = "range"
                 /\ pages' = pages
          /\ unit'.last.key <= separator(pages[ParentNodeNo]) =>
                 /\ unit'.last.res # "range"
                 /\ SpaceFor(pages[ParentNodeNo]) =>
                        /\ unit'.last.res = "ok"
                        /\ item_cnt(pages'[ParentNodeNo])
                               = item_cnt(pages[ParentNodeNo]) + 1
                        /\ get_item_v2(pages'[ParentNodeNo],
                                       item_cnt(pages[ParentNodeNo]))
                               = [key |-> unit'.last.key, val |-> unit'.last.page_no]
                        /\ separator(pages'[ParentNodeNo])
                               = separator(pages[ParentNodeNo])]_vars

\* a leaf that has taken an item with the separator's key refuses a greater key
C32_Witness ==
    /\ scenario = "node"
    /\ pages[ParentNodeNo].special.node_type = "Leaf"
    /\ unit.last.op = "add_item"
    /\ unit.last.res = "range"
    /\ unit.last.key > separator(pages[ParentNodeNo])
    /\ \E i \in DOMAIN item_iter(pages[ParentNodeNo]) :
           item_iter(pages[ParentNodeNo])[i].key = separator(pages[ParentNodeNo])

(***************************************************************************)
(* InternalNodeWriteLock::update_item (internal_node.rs:234-260)           *)
(***************************************************************************)
UpdateItemStep == unit'.calls = unit.calls + 1 /\ unit'.last.op = "update_item"

\* the downlinks of the node that point to page_no
DownlinksTo(node, page_no) ==
    {i \in DOMAIN item_iter(node) : item_iter(node)[i].val = page_no}

\* what update_item(entry) makes of a node whose only downlink to entry.val is i
UpdateItemPost(node, after, i, entry) ==
    /\ item_cnt(after) = item_cnt(node)
    /\ item_iter(after)[i] = entry
    /\ \A j \in DOMAIN item_iter(node) \ {i} : item_iter(after)[j] = item_iter(node)[j]
    /\ item_iter(node)[i] = entry => after = node
    /\ (item_iter(node)[i] # entry /\ item_iter(node)[i].key = separator(node)) =>
           /\ \E j \in DOMAIN item_iter(after) :
                  item_iter(after)[j].key = separator(after)
           /\ \A j \in DOMAIN item_iter(after) :
                  item_iter(after)[j].key <= separator(after)
    /\ item_iter(node)[i].key # separator(node) => separator(after) = separator(node)

\* C31: update_item(entry) on a node with exactly one downlink to entry.page_no
\* overwrites that downlink with entry and changes no other downlink; if the
\* overwritten downlink's old key was the node's separator the separator becomes
\* the greatest downlink key now in the node, otherwise it stays; an entry
\* identical to the stored one changes nothing
C31_UpdateItem ==
    [][(UpdateItemStep
          /\ Cardinality(DownlinksTo(pages[ParentNodeNo], unit'.last.page_no)) = 1) =>
          /\ unit'.last.res = "ok"
          /\ UpdateItemPost(pages[ParentNodeNo], pages'[ParentNodeNo],
                 CHOOSE i \in DownlinksTo(pages[ParentNodeNo], unit'.last.page_no) : TRUE,
                 [key |-> unit'.last.key, val |-> unit'.last.page_no])
          /\ \A p \in DOMAIN pages \ {ParentNodeNo} : pages'[p] = pages[p]]_vars

\* update_item has lowered the key of the downlink that carried the separator:
\* the separator has followed to the greatest key left, another downlink's
C31_Witness ==
    /\ scenario = "node"
    /\ unit.last.op = "update_item"
    /\ unit.last.res = "ok"
    /\ item_cnt(pages[ParentNodeNo]) = 3
    /\ separator(pages[ParentNodeNo]) = 6
    /\ unit.last.key = 3
    /\ \E i \in DOMAIN item_iter(pages[ParentNodeNo]) :
           /\ item_iter(pages[ParentNodeNo])[i].key = 6
           /\ item_iter(pages[ParentNodeNo])[i].val # unit.last.page_no

(***************************************************************************)
(* split_node_data_v2 inside update_child_ptr (insert.rs:275-311, 325-347) *)
(***************************************************************************)
\* C39: a split always completes: when update_child_ptr has split the parent, whose
\* n >= 1 downlinks all have one size, the parent and the new sibling each hold a
\* separator in slot 0 and at least one downlink
C39_SplitCompletes ==
    (scenario = "node" /\ unit.last.op = "update_child_ptr" /\ unit.last.split) =>
        /\ item_cnt(pages[ParentNodeNo]) >= 2
        /\ item_cnt(pages[unit.last.new_sibling_no]) >= 2

(***************************************************************************)
(* PageItemIteratorV2 (page.rs:310-340)                                    *)
(***************************************************************************)
\* C40: items_iter is double-ended over slot order: on a page with n items, n calls
\* of next_back yield the items of slots n-1 down to 0; for every mix of n calls of
\* next and next_back each slot is yielded exactly once, and the call after them
\* finds the iterator exhausted
C40_DoubleEnded ==
    (scenario = "page" /\ unit.last.op = "items_iter_v2") =>
        /\ (\A i \in 1 .. unit.last.idx : unit.last.calls[i] = "next_back") =>
               \A i \in 1 .. unit.last.idx :
                   unit.last.yields[i].slot = unit.last.idx - i
        /\ \A slot \in 0 .. (unit.last.idx - 1) :
               Cardinality({i \in 1 .. unit.last.idx :
                               unit.last.yields[i].slot = slot}) = 1
        /\ unit.last.yields[unit.last.idx + 1].slot = None

(***************************************************************************)
(* the layout of a page (page.rs:103-121, 370-418)                         *)
(***************************************************************************)
SlotOf(page, idx) == ItemPointerAt(page, idx * ITEM_POINTER_SIZE)

\* the bytes [offset, offset + size) of slot idx lie in [item_upper, pds - special_size)
SlotInItemArea(page, idx, pds) ==
    /\ page.header.item_upper <= SlotOf(page, idx).offset
    /\ SlotOf(page, idx).offset + SlotOf(page, idx).size
           <= pds - page.header.special_size

\* the item of slot idx is one of the items the callers store, at an offset that
\* is a multiple of its alignment
SlotAligned(page, idx) ==
    \E kind \in ItemKinds :
        /\ kind.size = SlotOf(page, idx).size
        /\ SlotOf(page, idx).offset % kind.align = 0

SlotsDisjoint(page, i, j) ==
    \/ SlotOf(page, i).offset + SlotOf(page, i).size <= SlotOf(page, j).offset
    \/ SlotOf(page, j).offset + SlotOf(page, j).size <= SlotOf(page, i).offset

\* C38: the page layout invariant: after any sequence of new, add_item, update_item
\* and zero_out_item_data, upper <= lower, upper = item_count * slot_size, and every
\* slot's byte range lies inside the item area below the special area and above the
\* slot directory, starts at a multiple of the item's alignment, and overlaps no
\* other slot's range
C38_PageLayout ==
    scenario = "page" =>
        /\ pages[0].header.item_upper <= pages[0].header.item_lower
        /\ pages[0].header.item_upper = item_cnt(pages[0]) * ITEM_POINTER_SIZE
        /\ \A i \in 0 .. (item_cnt(pages[0]) - 1) :
               /\ SlotInItemArea(pages[0], i, page_data_size)
               /\ SlotAligned(pages[0], i)
               /\ \A j \in 0 .. (item_cnt(pages[0]) - 1) :
                      i # j => SlotsDisjoint(pages[0], i, j)

(***************************************************************************)
(* latches held on the way down (search.rs:30-83, insert.rs:66-95)         *)
(***************************************************************************)
SharedHeld(t) == {p \in DOMAIN rw_locks : t \in rw_locks[p].readers}
ExclusiveHeld(t) == {p \in DOMAIN rw_locks : rw_locks[p].writer = t}

\* t runs search, or the descent loop of insert
Descending(t) == pc[t] \in {"srch_fetch", "srch_held", "ins_descend", "ins_descend_held"}

\* C34: during search and during the descent of insert a thread holds at most one
\* shared latch and never an exclusive latch
C34_DescentLatches ==
    scenario \in {"seq", "race"} =>
        \A t \in Threads :
            Descending(t) =>
                /\ Cardinality(SharedHeld(t)) <= 1
                /\ ExclusiveHeld(t) = {}

\* one thread reads a leaf in the descent of insert and another reads a leaf in
\* search after a move to the right sibling, each under its one shared latch
C34_Witness ==
    /\ scenario = "race"
    /\ \E t \in Threads :
           /\ pc[t] = "ins_descend_held"
           /\ SharedHeld(t) = {loc[t].leaf_node_no}
           /\ pages[loc[t].leaf_node_no].special.node_type = "Leaf"
    /\ \E u \in Threads :
           /\ pc[u] = "srch_held"
           /\ SharedHeld(u) = {loc[u].page_no}
           /\ \E q \in LeafPages :
                  pages[q].special.right_sibling_page_no = loc[u].page_no

(***************************************************************************)
(* sibling hops (leaf_node.rs:305-330, internal_node.rs:392-448,           *)
(* search.rs:40-46)                                                        *)
(***************************************************************************)
\* t leaves the node it has latched for the node's right sibling
MoveRight(t) ==
    \/ /\ pc[t] = "srch_held" /\ pc'[t] = "srch_fetch"
       /\ pages[loc[t].page_no].special.node_type = "Leaf"
    \/ pc[t] = "ins_leaf_held" /\ pc'[t] = "ins_find_leaf"

\* t is given the latch it has been waiting for on its way right or down
Latching(t) ==
    \/ pc[t] = "srch_fetch" /\ pc'[t] = "srch_held"
    \/ pc[t] = "ins_find_leaf" /\ pc'[t] = "ins_leaf_held"

LatchesOf(t) == SharedHeld(t) \cup ExclusiveHeld(t)

\* C37: the metadata page is latched last: a thread that holds a latch on page 0
\* acquires no latch on a tree page that already exists until it has released
\* page 0; only a page it allocates in the same step may be latched meanwhile
C37_MetadataLatchedLast ==
    [][\A t \in Threads :
          \A p \in (LatchesOf(t)' \ LatchesOf(t)) \ {0} :
              0 \in LatchesOf(t) => ~Allocated(p)]_vars

(***************************************************************************)
(* latches of the upward propagation (insert.rs:159-266, 313-349)          *)
(***************************************************************************)
\* the tree pages t holds exclusively
TreeExclusive(t) == ExclusiveHeld(t) \ {0}

\* the pages t allocates in the step it takes: new_page returns each with its
\* exclusive latch held, and the guard lives to the end of the step
AllocatedBy(t) == IF pc'[t] # pc[t] THEN used_cnt .. (used_cnt' - 1) ELSE {}

\* the child's latch through the propagation: the thread holds the exclusive latch
\* of one tree page, the just-split child, from the split on; it latches nothing
\* exclusively but that child and then the metadata page, and it returns only from
\* a step that finds page 0 latched and updates it
ChildLatchKept(t) ==
    /\ Cardinality(TreeExclusive(t)) = 1
    /\ ExclusiveHeld(t) \subseteq TreeExclusive(t) \cup {0}
    /\ Propagating(t)' => TreeExclusive(t)' = TreeExclusive(t)
    /\ (pc'[t] # pc[t] /\ loc'[t].status = "returned") =>
           /\ 0 \in ExclusiveHeld(t)
           /\ root_no(pages'[0]) # root_no(pages[0])

\* C36 as stated: during the upward propagation the thread keeps the exclusive
\* latch on the just-split child until its parent has been latched and updated,
\* latches the child before the parent, and at every step holds at most two
\* exclusive latches, also while a new root is created
C36_AtMostTwoExclusive ==
    [][\A t \in Threads :
          Propagating(t) =>
              /\ ChildLatchKept(t)
              /\ Cardinality(ExclusiveHeld(t) \cup AllocatedBy(t)) <= 2]_vars

\* C36 amended: during the upward propagation the thread keeps the exclusive latch
\* on the just-split child until its parent has been latched and updated, latches
\* the child before the parent, and at every step holds at most two exclusive
\* latches on pages that existed before the step (the child and its parent, here the
\* metadata page); the step that creates a new root holds a third exclusive latch,
\* that of the page it allocates
C36_TwoExclusivePlusAllocated ==
    [][\A t \in Threads :
          Propagating(t) =>
              /\ ChildLatchKept(t)
              /\ Cardinality(ExclusiveHeld(t)) <= 2
              /\ Cardinality(AllocatedBy(t)) <= 1
              /\ AllocatedBy(t) # {} =>
                     /\ Cardinality(ExclusiveHeld(t)) = 2
                     /\ pages'[used_cnt].special.node_type = "Internal"
                     /\ root_no(pages'[0]) = used_cnt]_vars

\* the thread has split the root leaf and latched the metadata page, which still
\* names that leaf as the root: the next step creates the new root
C36_Witness ==
    \E t \in Threads :
        /\ pc[t] = "ins_up_meta"
        /\ ExclusiveHeld(t) = {0, loc[t].page_no}
        /\ loc[t].page_no \in LeafPages
        /\ root_no(pages[0]) = loc[t].orig_child.val
        /\ used_cnt < NumPages

====
